---- MODULE Spec2Model ----
(***************************************************************************)
(* Event store with transactional outbox (src/src/domain/events_store.py). *)
(*                                                                         *)
(* EventStore.append_events runs on one pooled connection inside one       *)
(* database transaction: it reads the head version of the stream, compares *)
(* it with expected_version, inserts one events row and one outbox row per *)
(* event and commits.  OutboxRelay.process_outbox fetches committed outbox *)
(* rows, publishes each to the bus and deletes the row after the ack.      *)
(*                                                                         *)
(* Every await of the code is one step of the model.  The database is      *)
(* PostgreSQL at its default isolation level (READ COMMITTED): a statement *)
(* sees the rows committed before it starts, and an insert that collides   *)
(* with an uncommitted row of another transaction on a unique index waits  *)
(* for that transaction to end.                                            *)
(***************************************************************************)
EXTENDS Integers, Sequences, FiniteSets, TLC

\* ------------------------------------------------------------------ bounds
MaxSubmitted == 2    \* events submitted in one behaviour, over all new_events lists
MaxFaults == 1       \* Relay crashes, failed deletes and bus outages together

\* Relay configuration: the consecutive failed publishes after which a row is
\* to be dead-lettered (max per-row retry count).
MaxAttempts == 2

\* ------------------------------------------------------------- input sets
Writers == {"w1", "w2"}                 \* concurrent callers of append_events
Relays == {"r1"}                        \* the OutboxRelay worker
Workers == {"r1", "r2"}                 \* the workers of a Relay scaled horizontally
BatchSizes == {1, 2}                    \* batch_size arguments of process_outbox
Tenants == {"tA", "tB"}
Aggregates == {"X"}                     \* one aggregate_id, shared by the tenants
AggregateTypes == {"Account"}
ExpectedVersions == {0 - 1, 0, 1}            \* expected_version arguments
EventIds == 1 .. MaxSubmitted             \* event.metadata.event_id

NoResult == [kind |-> "none"]
NoArgs == [tenant_id |-> "tA", aggregate_id |-> "X", aggregate_type |-> "Account",
           expected_version |-> 0, new_events |-> << >>]

NoLast == [writer |-> "none", args |-> NoArgs, current_version |-> 0,
           inserted |-> 0, overlapped |-> "none", result |-> NoResult]
NoLoad == [tenant_id |-> "none", aggregate_id |-> "none", aggregate_type |-> "none",
           result |-> NoResult]

VARIABLES
    events,      \* committed rows of table events
    outbox,      \* committed rows of table outbox
    outboxSeq,   \* the sequence behind outbox.id
    clock,       \* the database clock, read by now()
    nextEid,     \* event ids handed out so far by generate_event_id
    submitted,   \* events submitted so far, over all calls
    pc,          \* per writer: the await it is suspended at
    args,        \* per writer: the arguments of its call
    txTime,      \* per writer: start time of its transaction
    newVersion,  \* per writer: local new_version
    idx,         \* per writer: position in new_events
    txEvents,    \* per writer: events rows inserted, not yet committed
    txOutbox,    \* per writer: outbox rows inserted, not yet committed
    cur,         \* per writer: local current_version
    rival,       \* per writer, history: a call on the same stream with the same
                 \* expected_version committed while this transaction was open
    last,        \* the append_events call that ended last: arguments and outcome
    rpc,         \* Relay: the await it is suspended at
    rrows,       \* Relay: the fetched rows
    ridx,        \* Relay: position in rows
    rcount,      \* Relay: processed_count
    rresult,     \* Relay: result of the last finished invocation
    rbatch,      \* Relay: the batch_size argument of the running invocation
    racked,      \* Relay, history: publishes the bus acknowledged to the
                 \* running invocation
    bus,         \* messages the bus acknowledged, in order
    busUp,       \* whether the bus accepts publishes
    faults,      \* faults injected so far
    appendedUnder, \* history: event_id -> the tenant_id argument of the call that committed it
    loaded,      \* the outcome of the last load_events call
    rejected,    \* history: ids of the rows in the outbox a publish of which
                 \* the bus rejected
    crashedAfterAck, \* history: ids of the rows in the outbox at which the Relay
                 \* died between the acknowledgment and the DELETE
    attempts,    \* history: outbox id -> publishes of the row the bus rejected
                 \* since its last acknowledgment, counted up to MaxAttempts
    printed,     \* history: the line the Relay's except branch printed last
    content,     \* event id -> the event the caller constructed with that id
                 \* (its place in EventTable); events are immutable
    lake,        \* the storage account: the files of its filesystems bronze
                 \* and silver, and how the DataLakeClient was constructed
    lakeCall     \* the DataLakeClient call that ended last: arguments, the
                 \* events it read, and outcome

vars == << events, outbox, outboxSeq, clock, nextEid, submitted, pc, args, txTime,
           newVersion, idx, txEvents, txOutbox, cur, rival, last, rpc, rrows, ridx,
           rcount, rresult, rbatch, racked, bus, busUp, faults, appendedUnder,
           loaded, rejected, crashedAfterAck, attempts, printed, content, lake, lakeCall >>

storeVars == << events, outbox, outboxSeq, clock, nextEid, submitted, pc, args,
                txTime, newVersion, idx, txEvents, txOutbox, cur, rival, last >>
writerVars == << pc, args, txTime, newVersion, idx, txEvents, txOutbox, cur, rival, last >>
relayVars == << rpc, rrows, ridx, rcount, rresult, rbatch, racked >>
lakeVars == << lake, lakeCall >>

\* ---------------------------------------------------------------- helpers
Max(S) == CHOOSE x \in S : \A y \in S : y <= x

Range(s) == { s[i] : i \in 1 .. Len(s) }

\* ------------------------------------------------------------------ Codec
\* Python values are records tagged with their type; a str is the sequence
\* of its characters.  A JSON document is the tree of its values: string,
\* number, null, object; the text between json.dumps and json.loads is that
\* tree written out and parsed again.
Digits == << "0", "1", "2", "3", "4", "5", "6", "7", "8", "9" >>
DigitChar(d) == Digits[d + 1]

Str(chars) == [type |-> "str", chars |-> chars]
None == [type |-> "None"]
PyInt(n) == [type |-> "int", int |-> n]

\* The decimal digits of a natural number, without leading zeros.
RECURSIVE NatStr(_)
NatStr(n) == IF n < 10 THEN << DigitChar(n) >> ELSE NatStr(n \div 10) \o << DigitChar(n % 10) >>

\* '0' * n
RECURSIVE Zeros(_)
Zeros(n) == IF n <= 0 THEN << >> ELSE << "0" >> \o Zeros(n - 1)

\* "%02d" % n and the like: n with leading zeros up to the width.
Pad(n, width) == Zeros(width - Len(NatStr(n))) \o NatStr(n)

\* str(uuid): 32 lowercase hexadecimal digits in groups of 8-4-4-4-12.  The
\* identifiers of the model have an int below 10.
UuidStr(u) ==
    Zeros(8) \o << "-" >> \o Zeros(4) \o << "-" >> \o Zeros(4) \o << "-" >> \o Zeros(4)
        \o << "-" >> \o Zeros(11) \o << DigitChar(u.int) >>

\* Decimal.__str__: plain notation when the exponent is at most 0 and the
\* number has more than -6 digits left of the point, scientific notation
\* otherwise; the coefficient's digits are kept as they are.
DecimalStr(d) ==
    LET sign == IF d.sign = 1 THEN << "-" >> ELSE << >>
        leftdigits == d.exp + Len(d.digits)
        dotplace == IF d.exp <= 0 /\ leftdigits > 0 - 6 THEN leftdigits ELSE 1
        intpart == IF dotplace <= 0 THEN << "0" >>
                   ELSE IF dotplace >= Len(d.digits)
                        THEN d.digits \o Zeros(dotplace - Len(d.digits))
                        ELSE SubSeq(d.digits, 1, dotplace)
        fracpart == IF dotplace <= 0 THEN << "." >> \o Zeros(0 - dotplace) \o d.digits
                    ELSE IF dotplace >= Len(d.digits) THEN << >>
                         ELSE << "." >> \o SubSeq(d.digits, dotplace + 1, Len(d.digits))
        e == leftdigits - dotplace
        exp == IF e = 0 THEN << >>
               ELSE << "E", IF e < 0 THEN "-" ELSE "+" >> \o NatStr(IF e < 0 THEN 0 - e ELSE e)
    IN  IF d.special = "NaN" THEN sign \o << "N", "a", "N" >>
        ELSE IF d.special = "Infinity"
             THEN sign \o << "I", "n", "f", "i", "n", "i", "t", "y" >>
             ELSE sign \o intpart \o fracpart \o exp

\* datetime.isoformat(): YYYY-MM-DDTHH:MM:SS, .ffffff when the microsecond
\* is not 0, and +HH:MM (the UTC offset) when the datetime is aware.
isoformat(dt) ==
    Pad(dt.year, 4) \o << "-" >> \o Pad(dt.month, 2) \o << "-" >> \o Pad(dt.day, 2)
        \o << "T" >> \o Pad(dt.hour, 2) \o << ":" >> \o Pad(dt.minute, 2)
        \o << ":" >> \o Pad(dt.second, 2)
        \o (IF dt.microsecond = 0 THEN << >> ELSE << "." >> \o Pad(dt.microsecond, 6))
        \o (IF ~dt.aware THEN << >>
            ELSE << IF dt.utcoffset < 0 THEN "-" ELSE "+" >>
                 \o Pad((IF dt.utcoffset < 0 THEN 0 - dt.utcoffset ELSE dt.utcoffset) \div 60, 2)
                 \o << ":" >>
                 \o Pad((IF dt.utcoffset < 0 THEN 0 - dt.utcoffset ELSE dt.utcoffset) % 60, 2))

\* dataclasses.asdict: a dataclass instance becomes the dict of its fields,
\* recursively; other values are copied.
RECURSIVE asdict(_)
asdict(obj) ==
    IF obj.type = "dataclass"
    THEN [type |-> "dict",
          items |-> [k \in DOMAIN obj.fields |-> asdict(obj.fields[k])]]
    ELSE obj

JsonString(chars) == [j |-> "string", chars |-> chars]
JsonRaise(error) == [j |-> "raise", error |-> error]

\* float(obj) of a Decimal, as far as its digits go: the value without the
\* scale (trailing zeros of the coefficient are gone).
RECURSIVE Normalized(_)
Normalized(d) ==
    IF Len(d.digits) > 1 /\ d.digits[Len(d.digits)] = "0"
    THEN Normalized([d EXCEPT !.digits = SubSeq(d.digits, 1, Len(d.digits) - 1),
                              !.exp = d.exp + 1])
    ELSE [sign |-> d.sign, digits |-> d.digits, exp |-> d.exp, special |-> d.special]

\* Mutant: a Decimal is encoded as a floating number (float(obj)).
EventEncoderDefaultDecimalAsFloat(obj) ==
    IF obj.type = "UUID" THEN JsonString(UuidStr(obj))
    ELSE IF obj.type = "Decimal" THEN [j |-> "number", float |-> Normalized(obj)]
         ELSE IF obj.type = "datetime" THEN JsonString(isoformat(obj))
              ELSE JsonRaise("TypeError")

\* EventEncoder.default: UUID -> str(obj), Decimal -> str(obj),
\* datetime -> obj.isoformat(); any other type that json cannot serialize
\* reaches super().default(obj), which raises TypeError.  (An EventMetadata
\* is a dict after asdict and a str-based Enum is a str to json: neither
\* reaches default, and no other value of the events has an attribute
\* `value`.)
EventEncoderDefault(obj) ==
    IF obj.type = "UUID" THEN JsonString(UuidStr(obj))
    ELSE IF obj.type = "Decimal" THEN JsonString(DecimalStr(obj))
         ELSE IF obj.type = "datetime" THEN JsonString(isoformat(obj))
              ELSE JsonRaise("TypeError")

\* json.dumps(obj, cls=EventEncoder): str, int, None and dict are encoded
\* by json itself (a str-based Enum as the str it is), everything else goes
\* through default; an error raised for a member is raised by the call.
RECURSIVE JsonDumps(_)
JsonDumps(obj) ==
    IF obj.type = "str" THEN JsonString(obj.chars)
    ELSE IF obj.type = "Enum" THEN JsonString(obj.value.chars)
    ELSE IF obj.type = "int" THEN [j |-> "number", int |-> obj.int]
    ELSE IF obj.type = "None" THEN [j |-> "null"]
    ELSE IF obj.type = "dict"
         THEN LET members == [k \in DOMAIN obj.items |-> JsonDumps(obj.items[k])]
              IN  IF \E k \in DOMAIN members : members[k].j = "raise"
                  THEN members[CHOOSE k \in DOMAIN members : members[k].j = "raise"]
                  ELSE [j |-> "object", members |-> members]
    ELSE EventEncoderDefault(obj)

\* json.loads: string -> str, number -> int or float, null -> None,
\* object -> dict.
RECURSIVE JsonLoads(_)
JsonLoads(doc) ==
    IF doc.j = "string" THEN Str(doc.chars)
    ELSE IF doc.j = "number"
         THEN IF "int" \in DOMAIN doc THEN PyInt(doc.int)
              ELSE [type |-> "float", float |-> doc.float]
    ELSE IF doc.j = "null" THEN None
    ELSE [type |-> "dict", items |-> [k \in DOMAIN doc.members |-> JsonLoads(doc.members[k])]]


\* The values the fields of the events take.
Uuid(n) == [type |-> "UUID", int |-> n]
Decimal(sign, digits, exp) ==
    [type |-> "Decimal", sign |-> sign, digits |-> digits, exp |-> exp, special |-> ""]
DecimalSpecial(sign, special) ==
    [type |-> "Decimal", sign |-> sign, digits |-> << "0" >>, exp |-> 0, special |-> special]
Datetime(second, microsecond, aware, utcoffset) ==
    [type |-> "datetime", year |-> 2024, month |-> 1, day |-> 15, hour |-> 9,
     minute |-> 30, second |-> second, microsecond |-> microsecond,
     aware |-> aware, utcoffset |-> utcoffset]
StrEnum(chars) == [type |-> "Enum", value |-> Str(chars)]

\* Decimal("10000.00"), Decimal("0.00"), Decimal("-12.50"), Decimal("1E+3"),
\* Decimal("1E-7"), Decimal("NaN"), Decimal("-Infinity")
Decimals ==
    << Decimal(0, << "1", "0", "0", "0", "0", "0", "0" >>, 0 - 2),
       Decimal(0, << "0" >>, 0 - 2),
       Decimal(1, << "1", "2", "5", "0" >>, 0 - 2),
       Decimal(0, << "1" >>, 3),
       Decimal(0, << "1" >>, 0 - 7),
       DecimalSpecial(0, "NaN"),
       DecimalSpecial(1, "Infinity") >>

\* datetime(..., tzinfo=timezone.utc), an aware datetime at +02:00 with
\* microseconds, and a naive datetime (no tzinfo).
Datetimes ==
    << Datetime(0, 0, TRUE, 0),
       Datetime(7, 500000, TRUE, 120),
       Datetime(7, 0, FALSE, 0) >>

\* description: Optional[str]: None, or an object json cannot serialize (a
\* set passed where the str belongs).
Descriptions == << None, [type |-> "set"] >>

\* event.metadata.timestamp, asserted by the producer, as an instant
EventTimestampOf(e) == MaxSubmitted - e

\* EventMetadata(event_id=..., timestamp=...), the other fields at their
\* defaults.
EventMetadata(e) ==
    [type |-> "dataclass", class |-> "EventMetadata",
     fields |-> [event_id |-> Uuid(e), correlation_id |-> Uuid(e),
                 timestamp |-> Datetime(EventTimestampOf(e), 0, TRUE, 0),
                 causation_id |-> None, user_id |-> None,
                 schema_version |-> PyInt(1)]]

AccountCreated(e, initial_balance) ==
    [type |-> "dataclass", class |-> "AccountCreated",
     fields |-> [aggregate_id |-> Uuid(9), metadata |-> EventMetadata(e),
                 account_name |-> Str(<< "O", "p", "s" >>),
                 account_type |-> StrEnum(<< "c", "h", "e", "c", "k", "i", "n", "g" >>),
                 currency |-> StrEnum(<< "N", "O", "K" >>),
                 initial_balance |-> initial_balance,
                 organization_id |-> None, department_id |-> None]]

AccountRenamed(e) ==
    [type |-> "dataclass", class |-> "AccountRenamed",
     fields |-> [aggregate_id |-> Uuid(9), metadata |-> EventMetadata(e),
                 old_name |-> Str(<< "O", "p", "s" >>),
                 new_name |-> Str(<< "o", "p", "s", "2" >>)]]

TransactionCreated(e, transaction_date, description) ==
    [type |-> "dataclass", class |-> "TransactionCreated",
     fields |-> [aggregate_id |-> Uuid(9), metadata |-> EventMetadata(e),
                 amount |-> Decimals[3],
                 currency |-> StrEnum(<< "N", "O", "K" >>),
                 transaction_type |-> StrEnum(<< "d", "e", "b", "i", "t" >>),
                 merchant_name |-> Str(<< "K", "i", "w", "i" >>),
                 description |-> description, category |-> None,
                 transaction_date |-> transaction_date,
                 merchant_category_code |-> None, external_reference |-> None,
                 raw_description |-> None, organization_id |-> None,
                 department_id |-> None, project_id |-> None,
                 cost_center_id |-> None]]

\* The events a caller may construct for event id e: AccountCreated with
\* each of the Decimals as initial_balance (1 .. 7), AccountRenamed (8),
\* TransactionCreated with each of the Datetimes and Descriptions (9 .. 14).
EventVariants == 1 .. 14
EventOf(e, i) ==
    IF i <= 7 THEN AccountCreated(e, Decimals[i])
    ELSE IF i = 8 THEN AccountRenamed(e)
    ELSE TransactionCreated(e, Datetimes[((i - 9) % 3) + 1], Descriptions[((i - 9) \div 3) + 1])

\* The event behind event id e when the caller chose nothing else.
DefaultVariant(e) == IF e % 2 = 1 THEN 1 ELSE 8

EventTable == [e \in 1 .. MaxSubmitted |-> [i \in EventVariants |-> EventOf(e, i)]]

\* json.dumps(asdict(event), cls=EventEncoder) for every event of the table
Payloads ==
    [e \in 1 .. MaxSubmitted |-> [i \in EventVariants |-> JsonDumps(asdict(EventTable[e][i]))]]

\* event.__class__.__name__
EventTypeOf(e) == EventTable[e][content[e]].class

\* event_data = json.dumps(asdict(event), cls=EventEncoder).  Rows and
\* messages hold a text by its place in Payloads; Text is the text itself,
\* or the error json.dumps raised.
EventDataOf(e) == [event |-> e, variant |-> content[e]]
Text(event_data) == Payloads[event_data.event][event_data.variant]

\* Mutant: the head version is read without the tenant_id condition.
CurrentVersionAnyTenant(rows, aggregate_id, tenant_id) ==
    LET vs == { r.version : r \in { x \in rows : x.aggregate_id = aggregate_id } }
    IN  IF vs = {} THEN 0 ELSE Max(vs)

\* SELECT COALESCE(MAX(version), 0) FROM events
\*   WHERE aggregate_id = $1 AND tenant_id = $2
CurrentVersion(rows, aggregate_id, tenant_id) ==
    LET vs == { r.version : r \in { x \in rows : x.aggregate_id = aggregate_id
                                                  /\ x.tenant_id = tenant_id } }
    IN  IF vs = {} THEN 0 ELSE Max(vs)

\* ------------------------------------------------------- relational schema
\* events: event_id PRIMARY KEY, UNIQUE (tenant_id, aggregate_id, version).
\* Mutant: table events has no primary key on event_id.
EventsViolatedVersionOnly(row, rows) ==
    IF \E x \in rows : /\ x.tenant_id = row.tenant_id
                       /\ x.aggregate_id = row.aggregate_id
                       /\ x.version = row.version
    THEN {"events_tenant_id_aggregate_id_version_key"} ELSE {}

\* The unique constraints of table events that row violates against rows.
EventsViolated(row, rows) ==
    (IF \E x \in rows : x.event_id = row.event_id THEN {"events_pkey"} ELSE {})
    \cup
    (IF \E x \in rows : /\ x.tenant_id = row.tenant_id
                        /\ x.aggregate_id = row.aggregate_id
                        /\ x.version = row.version
     THEN {"events_tenant_id_aggregate_id_version_key"} ELSE {})

\* Whether row collides with one of rows on a unique index of table events.
EventsUniqueConflict(row, rows) == EventsViolated(row, rows) # {}

\* asyncpg.UniqueViolationError; constraint_name is the constraint the
\* database reports, one of those the row violates.
UniqueViolationErrors(row, rows) ==
    { [kind |-> "UniqueViolationError", constraint_name |-> c] :
          c \in EventsViolated(row, rows) }

\* outbox: id BIGSERIAL PRIMARY KEY, created_at DEFAULT now().  now() is the
\* start time of the inserting transaction.
OutboxDefaultCreatedAt(w) == txTime[w]

\* The uncommitted events rows of the transactions other than w's.
OthersPending(w) == UNION { txEvents[q] : q \in Writers \ {w} }

\* ------------------------------------------------ EventStore.append_events
\* Mutant: the check rejects only a stale expected_version
\* (if current_version > expected_version: raise).
VersionMatchesStaleOnly(current_version, expected_version) ==
    current_version <= expected_version

\* if current_version != expected_version: raise ConcurrencyError(...)
VersionMatches(current_version, expected_version) ==
    current_version = expected_version

\* Mutant: the error is built with expected and actual exchanged.
ConcurrencyErrorSwapped(aggregate_id, expected, actual) ==
    [kind |-> "ConcurrencyError", aggregate_id |-> aggregate_id,
     expected_version |-> actual, actual_version |-> expected]

\* ConcurrencyError(aggregate_id, expected_version, current_version)
ConcurrencyError(aggregate_id, expected, actual) ==
    [kind |-> "ConcurrencyError", aggregate_id |-> aggregate_id,
     expected_version |-> expected, actual_version |-> actual]

\* Mutant: the version inserted is one past the incremented new_version.
NextVersionOffByOne(new_version) == new_version + 2

\* new_version += 1
NextVersion(new_version) == new_version + 1

\* INSERT INTO events (event_id, aggregate_id, aggregate_type, event_type,
\*   event_data, version, tenant_id, created_at) VALUES ($1, ..., $8)
EventRow(a, event, version) ==
    [event_id |-> event, aggregate_id |-> a.aggregate_id,
     aggregate_type |-> a.aggregate_type, event_type |-> EventTypeOf(event),
     event_data |-> EventDataOf(event), version |-> version,
     tenant_id |-> a.tenant_id, created_at |-> EventTimestampOf(event)]

\* Mutant: every outbox row of a call carries the payload of the call's first
\* event (event_data computed once, before the loop).
OutboxRowOfFirstEvent(a, event, id, now) ==
    [id |-> id, event_id |-> event, aggregate_type |-> a.aggregate_type,
     event_type |-> EventTypeOf(event), event_data |-> EventDataOf(a.new_events[1]),
     tenant_id |-> a.tenant_id, created_at |-> now]

\* INSERT INTO outbox (event_id, aggregate_type, event_type, event_data,
\*   tenant_id) VALUES ($1, ..., $5); id and created_at are column defaults
\* (the next value of the sequence, and now(): the transaction's start time).
OutboxRow(a, event, id, now) ==
    [id |-> id, event_id |-> event, aggregate_type |-> a.aggregate_type,
     event_type |-> EventTypeOf(event), event_data |-> EventDataOf(event),
     tenant_id |-> a.tenant_id, created_at |-> now]

\* The new_events lists a caller passes: n events with consecutive ids from
\* first on; first <= nextEid resubmits events that were submitted before.
Batch(first, n) == [i \in 1 .. n |-> first + i - 1]

\* A caller of the tenants given calls append_events with an aggregate_type
\* of the types given: acquire a connection, BEGIN.
AppendCall(w, tenants, types) ==
    /\ pc[w] = "idle"
    /\ \E t \in tenants, g \in Aggregates, ty \in types,
          ev \in ExpectedVersions, n \in 0 .. (MaxSubmitted - submitted),
          first \in 1 .. (nextEid + 1) :
          /\ n = 0 => first = nextEid + 1
          /\ submitted' = submitted + n
          /\ clock' = IF n = 0 THEN clock ELSE clock + 1
          /\ args' = [args EXCEPT ![w] =
                 [tenant_id |-> t, aggregate_id |-> g, aggregate_type |-> ty,
                  expected_version |-> ev, new_events |-> Batch(first, n)]]
          /\ nextEid' = IF first + n - 1 > nextEid THEN first + n - 1 ELSE nextEid
    /\ pc' = [pc EXCEPT ![w] = "read_version"]
    /\ txTime' = [txTime EXCEPT ![w] = clock]
    /\ last' = NoLast
    /\ UNCHANGED << events, outbox, outboxSeq, cur, newVersion, idx, txEvents,
                    txOutbox, rival, appendedUnder >>
    /\ UNCHANGED << relayVars, bus, busUp, faults, loaded, rejected, crashedAfterAck, attempts, printed, content, lakeVars >>

AppendBegin(w, tenants) == AppendCall(w, tenants, AggregateTypes)

\* The call ends with outcome: its connection is released and its locals
\* are gone; last keeps what the caller got, what it had passed, the head
\* version the call read and the number of events rows it had inserted.
Returns(w, outcome, current_version) ==
    /\ pc' = [pc EXCEPT ![w] = "idle"]
    /\ last' = [writer |-> w, args |-> args[w], current_version |-> current_version,
                inserted |-> Cardinality(txEvents[w]), overlapped |-> rival[w],
                result |-> outcome]
    /\ args' = [args EXCEPT ![w] = NoArgs]
    /\ txTime' = [txTime EXCEPT ![w] = 0]
    /\ cur' = [cur EXCEPT ![w] = 0]
    /\ newVersion' = [newVersion EXCEPT ![w] = 0]
    /\ idx' = [idx EXCEPT ![w] = 1]
    /\ txEvents' = [txEvents EXCEPT ![w] = {}]
    /\ txOutbox' = [txOutbox EXCEPT ![w] = {}]

\* Mutant: the head version is read among the rows of the call's
\* aggregate_type (WHERE ... AND aggregate_type = $3).
CheckVersionPerType(w) ==
    /\ pc[w] = "read_version"
    /\ LET a == args[w]
           current_version ==
               CurrentVersion({ r \in events : r.aggregate_type = a.aggregate_type },
                              a.aggregate_id, a.tenant_id)
       IN  IF ~VersionMatches(current_version, a.expected_version)
           THEN Returns(w, ConcurrencyError(a.aggregate_id, a.expected_version,
                                            current_version), current_version)
           ELSE /\ pc' = [pc EXCEPT ![w] =
                       IF Len(a.new_events) = 0 THEN "commit" ELSE "insert_event"]
                /\ cur' = [cur EXCEPT ![w] = current_version]
                /\ newVersion' = [newVersion EXCEPT ![w] = a.expected_version]
                /\ UNCHANGED << args, txTime, idx, txEvents, txOutbox, last >>
    /\ UNCHANGED << events, outbox, outboxSeq, clock, nextEid, submitted, rival,
                    appendedUnder >>
    /\ UNCHANGED << relayVars, bus, busUp, faults, loaded, rejected, crashedAfterAck, attempts, printed, content, lakeVars >>

\* fetchval of the head version, then the optimistic concurrency check.
CheckVersion(w) ==
    /\ pc[w] = "read_version"
    /\ LET a == args[w]
           current_version == CurrentVersion(events, a.aggregate_id, a.tenant_id)
       IN  IF ~VersionMatches(current_version, a.expected_version)
           THEN Returns(w, ConcurrencyError(a.aggregate_id, a.expected_version,
                                            current_version), current_version)
           ELSE /\ pc' = [pc EXCEPT ![w] =
                       IF Len(a.new_events) = 0 THEN "commit" ELSE "insert_event"]
                /\ cur' = [cur EXCEPT ![w] = current_version]
                /\ newVersion' = [newVersion EXCEPT ![w] = a.expected_version]
                /\ UNCHANGED << args, txTime, idx, txEvents, txOutbox, last >>
    /\ UNCHANGED << events, outbox, outboxSeq, clock, nextEid, submitted, rival,
                    appendedUnder >>
    /\ UNCHANGED << relayVars, bus, busUp, faults, loaded, rejected, crashedAfterAck, attempts, printed, content, lakeVars >>

\* Mutant: the events row is inserted outside the transaction (on the pool,
\* not on conn), so it is committed at once.
InsertEventAutocommit(w) ==
    /\ pc[w] = "insert_event"
    /\ LET a == args[w]
           version == NextVersion(newVersion[w])
           row == EventRow(a, a.new_events[idx[w]], version)
       IN  IF Text(row.event_data).j = "raise"
           THEN /\ Returns(w, [kind |-> Text(row.event_data).error], cur[w])
                /\ rival' = [rival EXCEPT ![w] = "none"]
                /\ UNCHANGED events
           ELSE
           /\ ~EventsUniqueConflict(row, OthersPending(w))
           /\ IF EventsUniqueConflict(row, events \cup txEvents[w])
              THEN /\ \E error \in UniqueViolationErrors(row, events \cup txEvents[w]) :
                          Returns(w, error, cur[w])
                   /\ rival' = [rival EXCEPT ![w] = "none"]
                   /\ UNCHANGED events
              ELSE /\ events' = events \cup {row}
                   /\ newVersion' = [newVersion EXCEPT ![w] = version]
                   /\ pc' = [pc EXCEPT ![w] = "insert_outbox"]
                   /\ UNCHANGED << args, txTime, cur, idx, txEvents, txOutbox,
                                   last, rival >>
    /\ UNCHANGED << outbox, outboxSeq, clock, nextEid, submitted, appendedUnder >>
    /\ UNCHANGED << relayVars, bus, busUp, faults, loaded, rejected, crashedAfterAck, attempts, printed, content, lakeVars >>

\* new_version += 1; json.dumps, which may raise; INSERT INTO events.  The
\* insert waits while the row collides with an uncommitted row of another
\* transaction, and raises UniqueViolationError when it collides with a
\* visible row.
InsertEvent(w) ==
    /\ pc[w] = "insert_event"
    /\ LET a == args[w]
           version == NextVersion(newVersion[w])
           row == EventRow(a, a.new_events[idx[w]], version)
       IN  IF Text(row.event_data).j = "raise"
           THEN /\ Returns(w, [kind |-> Text(row.event_data).error], cur[w])
                /\ rival' = [rival EXCEPT ![w] = "none"]
           ELSE
           /\ ~EventsUniqueConflict(row, OthersPending(w))
           /\ IF EventsUniqueConflict(row, events \cup txEvents[w])
              THEN /\ \E error \in UniqueViolationErrors(row, events \cup txEvents[w]) :
                          Returns(w, error, cur[w])
                   /\ rival' = [rival EXCEPT ![w] = "none"]
              ELSE /\ txEvents' = [txEvents EXCEPT ![w] = @ \cup {row}]
                   /\ newVersion' = [newVersion EXCEPT ![w] = version]
                   /\ pc' = [pc EXCEPT ![w] = "insert_outbox"]
                   /\ UNCHANGED << args, txTime, cur, idx, txOutbox, last, rival >>
    /\ UNCHANGED << events, outbox, outboxSeq, clock, nextEid, submitted,
                    appendedUnder >>
    /\ UNCHANGED << relayVars, bus, busUp, faults, loaded, rejected, crashedAfterAck, attempts, printed, content, lakeVars >>

\* Mutant: the outbox row is inserted outside the transaction, so it is
\* committed at once.
InsertOutboxAutocommit(w) ==
    /\ pc[w] = "insert_outbox"
    /\ LET a == args[w]
           row == OutboxRow(a, a.new_events[idx[w]], outboxSeq + 1, OutboxDefaultCreatedAt(w))
       IN  outbox' = outbox \cup {row}
    /\ outboxSeq' = outboxSeq + 1
    /\ idx' = [idx EXCEPT ![w] = @ + 1]
    /\ pc' = [pc EXCEPT ![w] =
           IF idx[w] = Len(args[w].new_events) THEN "commit" ELSE "insert_event"]
    /\ UNCHANGED << events, clock, nextEid, submitted, args, txTime, cur,
                    newVersion, txEvents, txOutbox, rival, last, appendedUnder >>
    /\ UNCHANGED << relayVars, bus, busUp, faults, loaded, rejected, crashedAfterAck, attempts, printed, content, lakeVars >>

\* INSERT INTO outbox, then the next event of the list, or the end of the
\* transaction block.
InsertOutbox(w) ==
    /\ pc[w] = "insert_outbox"
    /\ LET a == args[w]
           row == OutboxRow(a, a.new_events[idx[w]], outboxSeq + 1, OutboxDefaultCreatedAt(w))
       IN  txOutbox' = [txOutbox EXCEPT ![w] = @ \cup {row}]
    /\ outboxSeq' = outboxSeq + 1
    /\ idx' = [idx EXCEPT ![w] = @ + 1]
    /\ pc' = [pc EXCEPT ![w] =
           IF idx[w] = Len(args[w].new_events) THEN "commit" ELSE "insert_event"]
    /\ UNCHANGED << events, outbox, clock, nextEid, submitted, args, txTime, cur,
                    newVersion, txEvents, rival, last, appendedUnder >>
    /\ UNCHANGED << relayVars, bus, busUp, faults, loaded, rejected, crashedAfterAck, attempts, printed, content, lakeVars >>

\* Whether q's transaction has read the head version and is still open.
PastCheck(q) == pc[q] \in {"insert_event", "insert_outbox", "commit"}

\* COMMIT at the end of `async with conn.transaction()`; return new_version.
\* rival records, for the transactions that are open past their version
\* check, that a call on the same stream with the same expected_version
\* committed meanwhile ("events" when it committed events, "empty" when its
\* new_events was empty).
Commit(w) ==
    /\ pc[w] = "commit"
    /\ events' = events \cup txEvents[w]
    /\ outbox' = outbox \cup txOutbox[w]
    /\ Returns(w, [kind |-> "ok", value |-> newVersion[w]], cur[w])
    /\ rival' = [q \in Writers |->
           IF q = w THEN "none"
           ELSE IF /\ PastCheck(q)
                   /\ args[q].tenant_id = args[w].tenant_id
                   /\ args[q].aggregate_id = args[w].aggregate_id
                   /\ args[q].expected_version = args[w].expected_version
                THEN IF txEvents[w] # {} \/ rival[q] = "events" THEN "events" ELSE "empty"
                ELSE rival[q]]
    /\ appendedUnder' = [e \in EventIds |->
           IF e \in { r.event_id : r \in txEvents[w] }
           THEN args[w].tenant_id ELSE appendedUnder[e]]
    /\ UNCHANGED << outboxSeq, clock, nextEid, submitted >>
    /\ UNCHANGED << relayVars, bus, busUp, faults, loaded, rejected, crashedAfterAck, attempts, printed, content, lakeVars >>

\* The call is cancelled, or a statement fails (connection lost, deadlock
\* victim), at any await inside the transaction block: the block rolls back.
Abort(w) ==
    /\ pc[w] \in {"read_version", "insert_event", "insert_outbox", "commit"}
    /\ Returns(w, [kind |-> "Aborted"], cur[w])
    /\ rival' = [rival EXCEPT ![w] = "none"]
    /\ UNCHANGED << events, outbox, outboxSeq, clock, nextEid, submitted,
                    appendedUnder >>
    /\ UNCHANGED << relayVars, bus, busUp, faults, loaded, rejected, crashedAfterAck, attempts, printed, content, lakeVars >>

\* -------------------------------------------------- EventStore.load_events
\* Mutant: the rows are selected by aggregate_id alone.
LoadMatchesAnyTenant(rows, aggregate_id, tenant_id) ==
    { x \in rows : x.aggregate_id = aggregate_id }

\* SELECT event_id, event_type, event_data, version, created_at FROM events
\*   WHERE aggregate_id = $1 AND tenant_id = $2
LoadMatches(rows, aggregate_id, tenant_id) ==
    { x \in rows : x.aggregate_id = aggregate_id /\ x.tenant_id = tenant_id }

\* Mutant: the rows are ordered by created_at (ORDER BY created_at ASC).
RECURSIVE OrderByCreatedAt(_)
OrderByCreatedAt(rows) ==
    IF rows = {} THEN << >>
    ELSE LET r == CHOOSE x \in rows : \A y \in rows : x.created_at <= y.created_at
         IN  << [event_id |-> r.event_id, event_type |-> r.event_type,
                 event_data |-> JsonLoads(Text(r.event_data)), version |-> r.version,
                 created_at |-> r.created_at] >>
             \o OrderByCreatedAt(rows \ {r})

\* ORDER BY version ASC; one dict per row, its event_data decoded by
\* json.loads.
RECURSIVE OrderByVersion(_)
OrderByVersion(rows) ==
    IF rows = {} THEN << >>
    ELSE LET r == CHOOSE x \in rows : \A y \in rows : x.version <= y.version
         IN  << [event_id |-> r.event_id, event_type |-> r.event_type,
                 event_data |-> JsonLoads(Text(r.event_data)), version |-> r.version,
                 created_at |-> r.created_at] >>
             \o OrderByVersion(rows \ {r})

\* Mutant: without the `if not rows` test an unknown aggregate yields [].
LoadEventsEmptyList(w_aggregate_id, w_aggregate_type, w_tenant_id) ==
    [kind |-> "ok",
     value |-> OrderByVersion(LoadMatches(events, w_aggregate_id, w_tenant_id))]

\* load_events: the list of records, or AggregateNotFoundError.
LoadEvents(w_aggregate_id, w_aggregate_type, w_tenant_id) ==
    LET rows == LoadMatches(events, w_aggregate_id, w_tenant_id)
    IN  IF rows = {}
        THEN [kind |-> "AggregateNotFoundError", aggregate_id |-> w_aggregate_id,
              aggregate_type |-> w_aggregate_type]
        ELSE [kind |-> "ok", value |-> OrderByVersion(rows)]

LoadCall(types) ==
    /\ \E t \in Tenants, g \in Aggregates, ty \in types :
          loaded' = [tenant_id |-> t, aggregate_id |-> g, aggregate_type |-> ty,
                     result |-> LoadEvents(g, ty, t)]
    /\ UNCHANGED << storeVars, appendedUnder, relayVars, bus, busUp, faults, rejected, crashedAfterAck, attempts, printed, content, lakeVars >>

Load == LoadCall(AggregateTypes)

\* --------------------------------------------- OutboxRelay.process_outbox
UppercaseLetters == << "A", "B", "C", "D", "E", "F", "G", "H", "I", "J", "K", "L", "M",
                       "N", "O", "P", "Q", "R", "S", "T", "U", "V", "W", "X", "Y", "Z" >>
LowercaseLetters == << "a", "b", "c", "d", "e", "f", "g", "h", "i", "j", "k", "l", "m",
                       "n", "o", "p", "q", "r", "s", "t", "u", "v", "w", "x", "y", "z" >>

\* str.lower(): every uppercase letter becomes its lowercase letter, every
\* other character stays.
LowerChar(c) ==
    IF \E i \in 1 .. 26 : UppercaseLetters[i] = c
    THEN LowercaseLetters[CHOOSE i \in 1 .. 26 : UppercaseLetters[i] = c]
    ELSE c

\* The characters of the strings in use: an aggregate_type or a piece of a
\* topic is held as a TLA+ string, and the operations on its characters go
\* through this table.
Chars ==
    [Account |-> << "A", "c", "c", "o", "u", "n", "t" >>,
     account |-> << "a", "c", "c", "o", "u", "n", "t" >>,
     BUDGET |-> << "B", "U", "D", "G", "E", "T" >>,
     budget |-> << "b", "u", "d", "g", "e", "t" >>,
     Tax_2 |-> << "T", "a", "x", "_", "2" >>,
     tax_2 |-> << "t", "a", "x", "_", "2" >>]

\* The string with the given characters.
StrOf(chars) == CHOOSE str \in DOMAIN Chars : Chars[str] = chars

Lower(str) == StrOf([i \in 1 .. Len(Chars[str]) |-> LowerChar(Chars[str][i])])

\* str.lower() of every string in use, computed once.
Lowered == [str \in DOMAIN Chars |-> Lower(str)]

\* Mutant: the topic is built without .lower().
TopicAsIs(row) == << "finance.", row.aggregate_type, ".events" >>

\* topic = f"finance.{row['aggregate_type'].lower()}.events": the pieces of
\* the formatted string, in order.
Topic(row) == << "finance.", Lowered[row.aggregate_type], ".events" >>

\* send_and_wait(topic=topic, key=str(event_id), value=event_data)
Message(row) == [topic |-> Topic(row), key |-> row.event_id, value |-> row.event_data]

\* SELECT ... FROM outbox ORDER BY created_at ASC LIMIT $1: the results the
\* database may return; rows with equal created_at come in any order.
RECURSIVE FetchResults(_, _)
FetchResults(rows, batch_size) ==
    IF batch_size = 0 \/ rows = {} THEN { << >> }
    ELSE UNION { { << r >> \o s : s \in FetchResults(rows \ {r}, batch_size - 1) } :
                 r \in { x \in rows : \A y \in rows : x.created_at <= y.created_at } }

\* The loop goes on to the next fetched row, or the invocation returns
\* processed_count.
RelayNext(r, count) ==
    IF ridx[r] = Len(rrows[r])
    THEN /\ rpc' = [rpc EXCEPT ![r] = "idle"]
         /\ rresult' = [rresult EXCEPT ![r] = [kind |-> "ok", value |-> count]]
         /\ rrows' = [rrows EXCEPT ![r] = << >>]
         /\ ridx' = [ridx EXCEPT ![r] = 1]
         /\ rcount' = [rcount EXCEPT ![r] = 0]
         /\ rbatch' = [rbatch EXCEPT ![r] = 0]
         /\ racked' = [racked EXCEPT ![r] = 0]
    ELSE /\ ridx' = [ridx EXCEPT ![r] = @ + 1]
         /\ rcount' = [rcount EXCEPT ![r] = count]
         /\ rpc' = [rpc EXCEPT ![r] = "publish"]
         /\ UNCHANGED << rrows, rresult, rbatch, racked >>

\* Mutant: the SELECT also sees the rows open transactions have inserted
\* (a dirty read).
OutboxVisibleDirty == outbox \cup UNION { txOutbox[w] : w \in Writers }

\* The rows of table outbox a statement of the Relay's connection sees: the
\* committed ones (READ COMMITTED).
OutboxVisible == outbox

\* Step 1: fetch the pending rows; return 0 when there is none.  The
\* batch_size argument is one of sizes.
RelayFetchOf(r, sizes) ==
    /\ rpc[r] = "idle"
    /\ \E batch_size \in sizes : \E rows \in FetchResults(OutboxVisible, batch_size) :
          IF rows = << >>
          THEN /\ rresult' = [rresult EXCEPT ![r] = [kind |-> "ok", value |-> 0]]
               /\ UNCHANGED << rpc, rrows, ridx, rcount, rbatch >>
          ELSE /\ rrows' = [rrows EXCEPT ![r] = rows]
               /\ ridx' = [ridx EXCEPT ![r] = 1]
               /\ rcount' = [rcount EXCEPT ![r] = 0]
               /\ rpc' = [rpc EXCEPT ![r] = "publish"]
               /\ rresult' = [rresult EXCEPT ![r] = NoResult]
               /\ rbatch' = [rbatch EXCEPT ![r] = batch_size]
    /\ racked' = [racked EXCEPT ![r] = 0]
    /\ UNCHANGED << storeVars, appendedUnder, bus, busUp, faults, loaded, rejected, crashedAfterAck, attempts, printed, content, lakeVars >>

RelayFetch(r) == RelayFetchOf(r, BatchSizes)

\* Mutant: the row is deleted also when the send raised (the DELETE sits in
\* a finally block).
RelayPublishDeletesOnFailure(r) ==
    /\ rpc[r] = "publish"
    /\ IF busUp
       THEN /\ bus' = Append(bus, Message(rrows[r][ridx[r]]))
            /\ rpc' = [rpc EXCEPT ![r] = "delete"]
            /\ racked' = [racked EXCEPT ![r] = @ + 1]
            /\ UNCHANGED << rrows, ridx, rcount, rresult, rbatch, outbox >>
       ELSE /\ outbox' = { o \in outbox : o.id # rrows[r][ridx[r]].id }
            /\ RelayNext(r, rcount[r])
            /\ UNCHANGED bus
    /\ UNCHANGED << events, outboxSeq, clock, nextEid, submitted, writerVars >>
    /\ UNCHANGED << appendedUnder, busUp, faults, loaded, content, lakeVars >>

\* Mutant: the row is deleted before its send is awaited (DELETE first, then
\* send_and_wait).
RelayPublishDeletesFirst(r) ==
    /\ rpc[r] = "publish"
    /\ outbox' = { o \in outbox : o.id # rrows[r][ridx[r]].id }
    /\ IF busUp
       THEN /\ bus' = Append(bus, Message(rrows[r][ridx[r]]))
            /\ rpc' = [rpc EXCEPT ![r] = "delete"]
            /\ racked' = [racked EXCEPT ![r] = @ + 1]
            /\ UNCHANGED << rrows, ridx, rcount, rresult, rbatch >>
       ELSE /\ RelayNext(r, rcount[r])
            /\ UNCHANGED bus
    /\ UNCHANGED << events, outboxSeq, clock, nextEid, submitted, writerVars >>
    /\ UNCHANGED << appendedUnder, busUp, faults, loaded, content, lakeVars >>

\* Mutant: a failed send ends the invocation (the try block encloses the
\* loop, not its body).
RelayPublishStopsOnFailure(r) ==
    /\ rpc[r] = "publish"
    /\ IF busUp
       THEN /\ bus' = Append(bus, Message(rrows[r][ridx[r]]))
            /\ rpc' = [rpc EXCEPT ![r] = "delete"]
            /\ racked' = [racked EXCEPT ![r] = @ + 1]
            /\ UNCHANGED << rrows, ridx, rcount, rresult, rbatch >>
       ELSE /\ rpc' = [rpc EXCEPT ![r] = "idle"]
            /\ rresult' = [rresult EXCEPT ![r] = [kind |-> "ok", value |-> rcount[r]]]
            /\ rrows' = [rrows EXCEPT ![r] = << >>]
            /\ ridx' = [ridx EXCEPT ![r] = 1]
            /\ rcount' = [rcount EXCEPT ![r] = 0]
            /\ rbatch' = [rbatch EXCEPT ![r] = 0]
            /\ racked' = [racked EXCEPT ![r] = 0]
            /\ UNCHANGED bus
    /\ UNCHANGED << storeVars, appendedUnder, busUp, faults, loaded, content, lakeVars >>

\* Mutant: a row whose send raised is put at the end of the queue (UPDATE
\* outbox SET created_at = now() WHERE id = $1 in the except branch).
RelayPublishRequeues(r) ==
    /\ rpc[r] = "publish"
    /\ IF busUp
       THEN /\ bus' = Append(bus, Message(rrows[r][ridx[r]]))
            /\ rpc' = [rpc EXCEPT ![r] = "delete"]
            /\ racked' = [racked EXCEPT ![r] = @ + 1]
            /\ UNCHANGED << rrows, ridx, rcount, rresult, rbatch, outbox >>
       ELSE /\ outbox' = { IF o.id = rrows[r][ridx[r]].id
                           THEN [o EXCEPT !.created_at = clock + 1] ELSE o : o \in outbox }
            /\ RelayNext(r, rcount[r])
            /\ UNCHANGED bus
    /\ UNCHANGED << events, outboxSeq, clock, nextEid, submitted, writerVars >>
    /\ UNCHANGED << appendedUnder, busUp, faults, loaded, content, lakeVars >>

\* Step 3: send_and_wait.  The bus acknowledges, or the send raises and the
\* except branch goes on with the next row.  The send raises while the bus
\* is unreachable, and on every attempt for the events in refused (messages
\* the broker does not accept).
RelaySend(r, refused) ==
    /\ rpc[r] = "publish"
    /\ IF busUp /\ rrows[r][ridx[r]].event_id \notin refused
       THEN /\ bus' = Append(bus, Message(rrows[r][ridx[r]]))
            /\ rpc' = [rpc EXCEPT ![r] = "delete"]
            /\ racked' = [racked EXCEPT ![r] = @ + 1]
            /\ UNCHANGED << rrows, ridx, rcount, rresult, rbatch >>
       ELSE /\ RelayNext(r, rcount[r])
            /\ UNCHANGED bus
    /\ UNCHANGED << storeVars, appendedUnder, busUp, faults, loaded, content, lakeVars >>

RelayPublish(r) == RelaySend(r, {})

\* Mutant: the DELETE removes every fetched row, not the published one.
RelayDeleteWholeBatch(r) ==
    /\ rpc[r] = "delete"
    /\ outbox' = { o \in outbox : o.id \notin { x.id : x \in Range(rrows[r]) } }
    /\ RelayNext(r, rcount[r] + 1)
    /\ UNCHANGED << events, outboxSeq, clock, nextEid, submitted, writerVars >>
    /\ UNCHANGED << appendedUnder, bus, busUp, faults, loaded, content, lakeVars >>

\* Mutant: the published event is removed from table events as well
\* (DELETE FROM events WHERE event_id = $1 next to the outbox DELETE).
RelayDeleteAlsoEvent(r) ==
    /\ rpc[r] = "delete"
    /\ outbox' = { o \in outbox : o.id # rrows[r][ridx[r]].id }
    /\ events' = { e \in events : e.event_id # rrows[r][ridx[r]].event_id }
    /\ RelayNext(r, rcount[r] + 1)
    /\ UNCHANGED << outboxSeq, clock, nextEid, submitted, writerVars >>
    /\ UNCHANGED << appendedUnder, bus, busUp, faults, loaded, content, lakeVars >>

\* Mutant: the row is counted and left in the outbox (no DELETE).
RelayDeleteOmitted(r) ==
    /\ rpc[r] = "delete"
    /\ outbox' = outbox
    /\ RelayNext(r, rcount[r] + 1)
    /\ UNCHANGED << events, outboxSeq, clock, nextEid, submitted, writerVars >>
    /\ UNCHANGED << appendedUnder, bus, busUp, faults, loaded, content, lakeVars >>

\* Step 4: DELETE FROM outbox WHERE id = $1; processed_count += 1.
RelayDelete(r) ==
    /\ rpc[r] = "delete"
    /\ outbox' = { o \in outbox : o.id # rrows[r][ridx[r]].id }
    /\ RelayNext(r, rcount[r] + 1)
    /\ UNCHANGED << events, outboxSeq, clock, nextEid, submitted, writerVars >>
    /\ UNCHANGED << appendedUnder, bus, busUp, faults, loaded, content, lakeVars >>

\* The DELETE raises (connection lost): the except branch goes on.
RelayDeleteFails(r) ==
    /\ rpc[r] = "delete"
    /\ faults < MaxFaults
    /\ faults' = faults + 1
    /\ RelayNext(r, rcount[r])
    /\ UNCHANGED << storeVars, appendedUnder, bus, busUp, loaded, content, lakeVars >>

\* The Relay process dies at an await; its next start begins a new
\* invocation.  rresult keeps the await it died at and the row it was at.
RelayCrash(r) ==
    /\ rpc[r] \in {"publish", "delete"}
    /\ faults < MaxFaults
    /\ faults' = faults + 1
    /\ rpc' = [rpc EXCEPT ![r] = "idle"]
    /\ rrows' = [rrows EXCEPT ![r] = << >>]
    /\ ridx' = [ridx EXCEPT ![r] = 1]
    /\ rcount' = [rcount EXCEPT ![r] = 0]
    /\ rbatch' = [rbatch EXCEPT ![r] = 0]
    /\ rresult' = [rresult EXCEPT ![r] =
           [kind |-> "crashed", at |-> rpc[r], row |-> rrows[r][ridx[r]]]]
    /\ racked' = [racked EXCEPT ![r] = 0]
    /\ UNCHANGED << storeVars, appendedUnder, bus, busUp, loaded, content, lakeVars >>

\* ------------------------------------------------------------------ the bus
\* The bus becomes unreachable: every send_and_wait raises until it recovers.
BusOutage ==
    /\ busUp
    /\ faults < MaxFaults
    /\ busUp' = FALSE
    /\ faults' = faults + 1
    /\ UNCHANGED << storeVars, appendedUnder, relayVars, bus, loaded, rejected, crashedAfterAck, attempts, printed, content, lakeVars >>

BusRecovers ==
    /\ ~busUp
    /\ busUp' = TRUE
    /\ UNCHANGED << storeVars, appendedUnder, relayVars, bus, faults, loaded, rejected, crashedAfterAck, attempts, printed, content, lakeVars >>

\* str(e) of the exception a failed send_and_wait or a failed DELETE raises:
\* the text of the client library, which names the fault.
KafkaError == << "K", "a", "f", "k", "a", "E", "r", "r", "o", "r" >>
PostgresError == << "P", "o", "s", "t", "g", "r", "e", "s", "E", "r", "r", "o", "r" >>

\* print(f"Error processing outbox message {row['id']}: {e}"): the pieces
\* of the formatted line, in order; a literal piece as a string, a
\* substituted one as its characters.
Literal(text) == [literal |-> text]
Substituted(chars) == [chars |-> chars]
ErrorFormat(row_id, e) ==
    << Literal("Error processing outbox message "), Substituted(row_id),
       Literal(": "), Substituted(e) >>
ErrorLine(row, e) == ErrorFormat(NatStr(row.id), e)
NoLine == << >>

\* ----------------------------------------------------- the Relay's history
\* The history variables are left alone by every step but the three below;
\* AuditSpec keeps them, the other specifications leave them empty.
hist == << rejected, crashedAfterAck, attempts, printed >>

\* except branch: the publish of the row was rejected, the row stays; an
\* acknowledgment ends the row's run of failed publishes.
NoteRejected(r) ==
    /\ rejected' = IF busUp THEN rejected ELSE rejected \cup {rrows[r][ridx[r]].id}
    /\ attempts' = [attempts EXCEPT ![rrows[r][ridx[r]].id] =
                       IF busUp THEN 0
                       ELSE IF @ < MaxAttempts THEN @ + 1 ELSE @]
    /\ printed' = IF busUp THEN printed
                  ELSE ErrorLine(rrows[r][ridx[r]], KafkaError)
    /\ UNCHANGED crashedAfterAck

\* The row is deleted.
NoteDeleted(r) ==
    /\ rejected' = rejected \ {rrows[r][ridx[r]].id}
    /\ crashedAfterAck' = crashedAfterAck \ {rrows[r][ridx[r]].id}
    /\ UNCHANGED << attempts, printed >>

\* The Relay died; when it died at the DELETE, the row had been acknowledged.
NoteCrash(r) ==
    /\ crashedAfterAck' = IF rpc[r] = "delete"
                          THEN crashedAfterAck \cup {rrows[r][ridx[r]].id}
                          ELSE crashedAfterAck
    /\ UNCHANGED << rejected, attempts, printed >>

\* except branch: the DELETE of the row raised, the row stays.
NoteDeleteFailed(r) ==
    /\ printed' = ErrorLine(rrows[r][ridx[r]], PostgresError)
    /\ UNCHANGED << rejected, crashedAfterAck, attempts >>

\* ---------------------------------------------------------- specifications
\* OutboxRelay.__init__: every worker is idle.
\* ------------------------------------------------------------ DataLakeClient
\* A path is the sequence of its components (the parts between "/"), a
\* component the sequence of the pieces an f-string or strftime puts
\* together.  A file is [path, content]; the content of a Parquet file is
\* the sequence of its rows.
LakeEventTypes == {"AccountCreated", "TransactionCreated"}

DateTime(year, month, day, second) ==
    [year |-> year, month |-> month, day |-> day, hour |-> 0, minute |-> 0,
     second |-> second]

\* The datetimes of the calls: partition dates and readings of the clock.
DateTimes == { DateTime(2024, 3, 7, 0), DateTime(2024, 11, 21, 1) }

\* What datetime.now() returns to a call.
ClockReadings == { DateTime(2024, 11, 21, 1) }

\* The day argument of transform_bronze_to_silver; it defaults to None.
DayArguments == { PyInt(d.day) : d \in DateTimes } \cup { None }

\* The event dictionaries handed to upload_event_to_bronze: two events, and
\* the first of them once more as a redelivery stamped later.
LakeEvent(event_id, event_type, created_at) ==
    [event_id |-> event_id, event_type |-> event_type, created_at |-> created_at]

FirstEvent(event_type) == LakeEvent("e1", event_type, 1)
SecondEvent(event_type) == LakeEvent("e2", event_type, 2)
Redelivered(event_type) == LakeEvent("e1", event_type, 3)

UploadBatches(event_type) ==
    { << FirstEvent(event_type) >>,
      << FirstEvent(event_type), SecondEvent(event_type) >> }

\* f"year={...}", f"month={...:02d}", f"day={...:02d}"
YearPart(year) == << "year=" >> \o NatStr(year)
MonthPart(month) == << "month=" >> \o Pad(month, 2)
DayPart(day) == << "day=" >> \o Pad(day, 2)

\* strftime("%Y%m%d_%H%M%S") and strftime("%H%M%S")
StrftimeDateTime(d) ==
    Pad(d.year, 4) \o Pad(d.month, 2) \o Pad(d.day, 2) \o << "_" >>
        \o Pad(d.hour, 2) \o Pad(d.minute, 2) \o Pad(d.second, 2)
StrftimeTime(d) == Pad(d.hour, 2) \o Pad(d.minute, 2) \o Pad(d.second, 2)

\* _convert_events_to_parquet and pq.read_table(...).to_pylist(): the rows
\* of the table, one per event, with the columns of the schema.
ConvertEventsToParquet(evs) ==
    [i \in 1 .. Len(evs) |->
        [event_id |-> evs[i].event_id, event_type |-> evs[i].event_type,
         created_at |-> evs[i].created_at]]

\* file_client.upload_data(data, overwrite=True)
UploadData(files, path, data) ==
    { f \in files : f.path # path } \cup { [path |-> path, content |-> data] }

IsUnder(path, directory) ==
    /\ Len(path) > Len(directory)
    /\ SubSeq(path, 1, Len(directory)) = directory

\* name.endswith(".parquet")
EndsWithParquet(path) ==
    LET name == path[Len(path)] IN name[Len(name)] = ".parquet"

\* Lexicographic order of file names of one shape, the shape strftime
\* writes: the order of their digits.
DigitValue(c) == CHOOSE d \in 0 .. 9 : DigitChar(d) = c

RECURSIVE DigitsOf(_)
DigitsOf(name) ==
    IF name = << >> THEN << >>
    ELSE IF \E d \in 0 .. 9 : DigitChar(d) = name[1]
         THEN << DigitValue(name[1]) >> \o DigitsOf(Tail(name))
         ELSE DigitsOf(Tail(name))

RECURSIVE LexLeq(_, _)
LexLeq(s, t) ==
    IF s = << >> THEN TRUE
    ELSE IF t = << >> THEN FALSE
    ELSE IF s[1] # t[1] THEN s[1] < t[1]
    ELSE LexLeq(Tail(s), Tail(t))

NameLeq(p, q) == LexLeq(DigitsOf(p[Len(p)]), DigitsOf(q[Len(q)]))

\* get_paths(path=directory, recursive=True): the files below the
\* directory, by name.
RECURSIVE ByName(_)
ByName(files) ==
    IF files = {} THEN << >>
    ELSE LET first == CHOOSE f \in files : \A g \in files : NameLeq(f.path, g.path)
         IN  << first >> \o ByName(files \ {first})

GetPaths(files, directory) == ByName({ f \in files : IsUnder(f.path, directory) })

\* The loop over the listing: the rows of every .parquet file, appended
\* to all_events in the order read.
RECURSIVE ReadAll(_)
ReadAll(listing) ==
    IF listing = << >> THEN << >>
    ELSE (IF EndsWithParquet(listing[1].path) THEN listing[1].content ELSE << >>)
             \o ReadAll(Tail(listing))

\* seen_ids / unique_events: an event is kept when no event before it has
\* its event_id.
RECURSIVE Deduplicate(_)
Deduplicate(all_events) ==
    IF all_events = << >> THEN << >>
    ELSE LET n == Len(all_events)
             before == SubSeq(all_events, 1, n - 1)
         IN  IF \E i \in 1 .. n - 1 : before[i].event_id = all_events[n].event_id
             THEN Deduplicate(before)
             ELSE Deduplicate(before) \o << all_events[n] >>

\* The enriched dictionary of an event.
Enriched(event, bronze_path) ==
    [event_id |-> event.event_id, event_type |-> event.event_type,
     created_at |-> event.created_at, source_file |-> bronze_path]

\* The loop over unique_events: the write to Silver and the return are in the
\* loop body, so that the table is built and the function returns when
\* enriched_events holds the first event.
EnrichedAtWrite(unique_events, bronze_path) ==
    << Enriched(unique_events[1], bronze_path) >>

Returned(value) == [kind |-> "ok", value |-> value]
Raised(exception) == [kind |-> exception]

\* The empty string.
EmptyStr == << >>

NoCall == [op |-> "none"]

\* upload_event_to_bronze; the event_id and event_type arguments are not
\* used.  With a connection string the constructor sets service_client and
\* get_filesystem_client reads _service_client.
UploadEventToBronze(event_id, event_type, evs, partition_date, now) ==
    LET date == IF partition_date = None THEN now ELSE partition_date
        partition_path == << YearPart(date.year), MonthPart(date.month), DayPart(date.day) >>
        timestamp == StrftimeDateTime(date)
        filename == timestamp \o << ".parquet" >>
        full_path == partition_path \o << filename >>
        parquet_bytes == ConvertEventsToParquet(evs)
        call(result) ==
            [op |-> "upload_event_to_bronze", event_type |-> event_type,
             events |-> evs, year |-> date.year, month |-> date.month,
             day |-> PyInt(date.day), all_events |-> << >>, result |-> result]
    IN  IF lake.connection_string
        THEN /\ lake' = lake
             /\ lakeCall' = call(Raised("AttributeError"))
        ELSE /\ lake' = [lake EXCEPT !.bronze = UploadData(@, full_path, parquet_bytes)]
             /\ lakeCall' = call(Returned(full_path))

\* f"events/{event_type}/year={year}/month={month:02d}/day={day:02d}"
BronzePath(event_type, year, month, day) ==
    << << "events" >>, << event_type >>, YearPart(year), MonthPart(month), DayPart(day.int) >>

\* transform_bronze_to_silver.  pyarrow and the storage SDK are not part of
\* the repository: listing a directory that does not exist either raises
\* or lists nothing, and pa.table, given processed_at as an ISO string for
\* a timestamp column, either raises or converts.
TransformBronzeToSilver(event_type, year, month, day, now, sdk_raises) ==
    LET call(all_events, result) ==
            [op |-> "transform_bronze_to_silver", event_type |-> event_type,
             events |-> << >>, year |-> year, month |-> month, day |-> day,
             all_events |-> all_events, result |-> result]
        bronze_path == BronzePath(event_type, year, month, day)
        listing == GetPaths(lake.bronze, bronze_path)
        all_events == ReadAll(listing)
        unique_events == Deduplicate(all_events)
        enriched_events == EnrichedAtWrite(unique_events, bronze_path)
        silver_path == bronze_path
                           \o << << "silver_" >> \o StrftimeDateTime(now) \o << ".parquet" >> >>
        filename == << "silver_" >> \o NatStr(year) \o Pad(month, 2) \o Pad(day.int, 2)
                        \o << "_" >> \o StrftimeTime(now) \o << ".parquet" >>
        full_path == silver_path \o << filename >>
    IN  IF lake.connection_string
        THEN /\ lake' = lake
             /\ lakeCall' = call(<< >>, Raised("AttributeError"))
        ELSE IF day = None
        THEN /\ lake' = lake
             /\ lakeCall' = call(<< >>, Raised("TypeError"))
        ELSE IF listing = << >> /\ sdk_raises
        THEN /\ lake' = lake
             /\ lakeCall' = call(<< >>, Raised("ResourceNotFoundError"))
        ELSE IF all_events = << >>
        THEN /\ lake' = lake
             /\ lakeCall' = call(all_events, Returned(EmptyStr))
        ELSE IF sdk_raises
        THEN /\ lake' = lake
             /\ lakeCall' = call(all_events, Raised("ArrowError"))
        ELSE /\ lake' = [lake EXCEPT !.silver = UploadData(@, full_path, enriched_events)]
             /\ lakeCall' = call(all_events, Returned(full_path))

Upload ==
    /\ \E event_type \in LakeEventTypes, partition_date \in DateTimes \cup {None},
          now \in ClockReadings :
          \E evs \in UploadBatches(event_type) :
              UploadEventToBronze(evs[1].event_id, event_type, evs, partition_date, now)
    /\ UNCHANGED << storeVars, appendedUnder, relayVars, bus, busUp, faults, loaded, hist, content >>

Transform ==
    /\ \E event_type \in LakeEventTypes, date \in DateTimes, day \in DayArguments,
          now \in ClockReadings, sdk_raises \in BOOLEAN :
          TransformBronzeToSilver(event_type, date.year, date.month, day, now, sdk_raises)
    /\ UNCHANGED << storeVars, appendedUnder, relayVars, bus, busUp, faults, loaded, hist, content >>

\* No DataLakeClient call has been made and the storage account is empty.
LakeUnused ==
    /\ lake = [connection_string |-> FALSE, bronze |-> {}, silver |-> {}]
    /\ lakeCall = NoCall

RelayInit(workers) ==
    /\ rpc = [r \in workers |-> "idle"]
    /\ rrows = [r \in workers |-> << >>]
    /\ ridx = [r \in workers |-> 1]
    /\ rcount = [r \in workers |-> 0]
    /\ rresult = [r \in workers |-> NoResult]
    /\ rbatch = [r \in workers |-> 0]
    /\ racked = [r \in workers |-> 0]

\* The state after construction: empty tables, every caller and worker
\* idle, the bus up; variants names the event each event id stands for.
StoreAndRelayInit(workers, variants) ==
    /\ events = {}
    /\ outbox = {}
    /\ outboxSeq = 0
    /\ clock = 0
    /\ nextEid = 0
    /\ submitted = 0
    /\ pc = [w \in Writers |-> "idle"]
    /\ args = [w \in Writers |-> NoArgs]
    /\ txTime = [w \in Writers |-> 0]
    /\ newVersion = [w \in Writers |-> 0]
    /\ idx = [w \in Writers |-> 1]
    /\ txEvents = [w \in Writers |-> {}]
    /\ txOutbox = [w \in Writers |-> {}]
    /\ cur = [w \in Writers |-> 0]
    /\ rival = [w \in Writers |-> "none"]
    /\ last = NoLast
    /\ RelayInit(workers)
    /\ bus = << >>
    /\ busUp = TRUE
    /\ faults = 0
    /\ appendedUnder = [e \in EventIds |-> "none"]
    /\ loaded = NoLoad
    /\ rejected = {}
    /\ crashedAfterAck = {}
    /\ attempts = [id \in 1 .. MaxSubmitted |-> 0]
    /\ printed = NoLine
    /\ content = variants

InitState(workers, variants) ==
    /\ StoreAndRelayInit(workers, variants)
    /\ LakeUnused

Init == InitState(Relays, [e \in 1 .. MaxSubmitted |-> DefaultVariant(e)])

Next ==
    \/ \E w \in {"w1"} : AppendBegin(w, {"tA"})
    \/ \E w \in {"w1"} : CheckVersion(w)
    \/ \E w \in {"w1"} : InsertEvent(w)
    \/ \E w \in {"w1"} : InsertOutbox(w)
    \/ \E w \in {"w1"} : Commit(w)
    \/ \E w \in {"w1"} : Abort(w)
    \/ \E r \in Relays : RelayFetch(r)
    \/ \E r \in Relays : RelayPublish(r) /\ UNCHANGED hist
    \/ \E r \in Relays : RelayDelete(r) /\ UNCHANGED hist
    \/ \E r \in Relays : RelayDeleteFails(r) /\ UNCHANGED hist
    \/ \E r \in Relays : RelayCrash(r) /\ UNCHANGED hist
    \/ BusOutage
    \/ BusRecovers

\* One caller of append_events and the Relay, with the bus and its faults.
Spec == Init /\ [][Next]_vars

\* The Event Store alone: concurrent append_events calls of both tenants.
StoreNext ==
    \/ \E w \in Writers : AppendBegin(w, Tenants)
    \/ \E w \in Writers : CheckVersion(w)
    \/ \E w \in Writers : InsertEvent(w)
    \/ \E w \in Writers : InsertOutbox(w)
    \/ \E w \in Writers : Commit(w)
    \/ \E w \in Writers : Abort(w)

StoreSpec == Init /\ [][StoreNext]_vars

\* One caller at a time, of either tenant, and load_events.
TenantNext ==
    \/ \E w \in {"w1"} : AppendBegin(w, Tenants)
    \/ \E w \in {"w1"} : CheckVersion(w)
    \/ \E w \in {"w1"} : InsertEvent(w)
    \/ \E w \in {"w1"} : InsertOutbox(w)
    \/ \E w \in {"w1"} : Commit(w)
    \/ \E w \in {"w1"} : Abort(w)
    \/ Load

TenantSpec == Init /\ [][TenantNext]_vars

\* The events of the first two event ids vary: the first is any event of the
\* table, the second (and every later one) an AccountRenamed or a
\* TransactionCreated whose description json cannot serialize.
CodecInit ==
    \E i \in EventVariants, k \in {8, 12} :
        InitState(Relays, [e \in 1 .. MaxSubmitted |-> IF e = 1 THEN i ELSE k])

\* One caller of append_events, tenant tA, and load_events.
CodecNext ==
    \/ \E w \in {"w1"} : AppendBegin(w, {"tA"})
    \/ \E w \in {"w1"} : CheckVersion(w)
    \/ \E w \in {"w1"} : InsertEvent(w)
    \/ \E w \in {"w1"} : InsertOutbox(w)
    \/ \E w \in {"w1"} : Commit(w)
    \/ Load

CodecSpec == CodecInit /\ [][CodecNext]_vars

\* One caller at a time of tenant tA, with an aggregate_type argument of
\* either value for the one aggregate_id, and load_events likewise.
TypedAggregateTypes == {"Account", "BUDGET"}

TypedNext ==
    \/ \E w \in {"w1"} : AppendCall(w, {"tA"}, TypedAggregateTypes)
    \/ \E w \in {"w1"} : CheckVersion(w)
    \/ \E w \in {"w1"} : InsertEvent(w)
    \/ \E w \in {"w1"} : InsertOutbox(w)
    \/ \E w \in {"w1"} : Commit(w)
    \/ LoadCall(TypedAggregateTypes)

TypedSpec == Init /\ [][TypedNext]_vars

\* The Bronze partition of AccountCreated for 2024-03-07 as a consumer of
\* the bus filled it: no file, or files of events in which an event
\* delivered twice appears twice, in one file or in two.
PartitionFile(d, rows) ==
    [path |-> << << "events" >>, << "AccountCreated" >>, YearPart(d.year),
                 MonthPart(d.month), DayPart(d.day),
                 StrftimeDateTime(d) \o << ".parquet" >> >>,
     content |-> ConvertEventsToParquet(rows)]

BronzePartitions ==
    LET a == FirstEvent("AccountCreated")
        b == SecondEvent("AccountCreated")
        again == Redelivered("AccountCreated")
        earlier == { {} } \cup { { PartitionFile(DateTime(2024, 3, 7, 0), rows) } :
                                   rows \in { << a, b >>, << a, again, b >>, << again, a >> } }
        later == { {} } \cup { { PartitionFile(DateTime(2024, 3, 7, 1), rows) } :
                                 rows \in { << again, b >> } }
    IN  { f1 \cup f2 : f1 \in earlier, f2 \in later }

\* A DataLakeClient constructed either way, on a storage account whose
\* bronze filesystem holds one of the partitions.
LakeInit ==
    /\ StoreAndRelayInit(Relays, [e \in 1 .. MaxSubmitted |-> DefaultVariant(e)])
    /\ \E connection_string \in BOOLEAN, files \in BronzePartitions :
          lake = [connection_string |-> connection_string, bronze |-> files, silver |-> {}]
    /\ lakeCall = NoCall

LakeNext ==
    \/ Upload
    \/ Transform

LakeSpec == LakeInit /\ [][LakeNext]_vars

\* One caller at a time, of either tenant and with an aggregate_type of
\* either case, and the Relay on a bus that is up.
PublishNext ==
    \/ \E w \in {"w1"} : AppendCall(w, Tenants, {"Account", "BUDGET"})
    \/ \E w \in {"w1"} : CheckVersion(w)
    \/ \E w \in {"w1"} : InsertEvent(w)
    \/ \E w \in {"w1"} : InsertOutbox(w)
    \/ \E w \in {"w1"} : Commit(w)
    \/ \E r \in Relays : RelayFetch(r)
    \/ \E r \in Relays : RelayPublish(r) /\ UNCHANGED hist
    \/ \E r \in Relays : RelayDelete(r) /\ UNCHANGED hist

PublishSpec == Init /\ [][PublishNext]_vars

\* One caller of append_events and a single Relay that neither dies nor
\* loses its connection; the bus has outages.
SteadyNext ==
    \/ \E w \in {"w1"} : AppendBegin(w, {"tA"})
    \/ \E w \in {"w1"} : CheckVersion(w)
    \/ \E w \in {"w1"} : InsertEvent(w)
    \/ \E w \in {"w1"} : InsertOutbox(w)
    \/ \E w \in {"w1"} : Commit(w)
    \/ \E r \in Relays : RelayFetch(r)
    \/ \E r \in Relays : RelayPublish(r) /\ UNCHANGED hist
    \/ \E r \in Relays : RelayDelete(r) /\ UNCHANGED hist
    \/ BusOutage
    \/ BusRecovers

SteadySpec == Init /\ [][SteadyNext]_vars

\* The events whose message the bus rejects on every attempt.
Refused == {1}

\* One caller of append_events and a Relay invoked with batch_size 1 again
\* and again; the bus is up and rejects the messages of the events in
\* Refused.
PoisonNext ==
    \/ \E w \in {"w1"} : AppendBegin(w, {"tA"})
    \/ \E w \in {"w1"} : CheckVersion(w)
    \/ \E w \in {"w1"} : InsertEvent(w)
    \/ \E w \in {"w1"} : InsertOutbox(w)
    \/ \E w \in {"w1"} : Commit(w)
    \/ \E r \in Relays : RelayFetchOf(r, {1})
    \/ \E r \in Relays : RelaySend(r, Refused) /\ UNCHANGED hist
    \/ \E r \in Relays : RelayDelete(r) /\ UNCHANGED hist

PoisonRelayStep ==
    \E r \in Relays : \/ RelayFetchOf(r, {1})
                      \/ (RelaySend(r, Refused) \/ RelayDelete(r)) /\ UNCHANGED hist

PoisonSpec == Init /\ [][PoisonNext]_vars /\ WF_vars(PoisonRelayStep)

\* The same with batch_size 2, more than the rows that fail.
WideBatchNext ==
    \/ \E w \in {"w1"} : AppendBegin(w, {"tA"})
    \/ \E w \in {"w1"} : CheckVersion(w)
    \/ \E w \in {"w1"} : InsertEvent(w)
    \/ \E w \in {"w1"} : InsertOutbox(w)
    \/ \E w \in {"w1"} : Commit(w)
    \/ \E r \in Relays : RelayFetchOf(r, {2})
    \/ \E r \in Relays : RelaySend(r, Refused) /\ UNCHANGED hist
    \/ \E r \in Relays : RelayDelete(r) /\ UNCHANGED hist

WideBatchRelayStep ==
    \E r \in Relays : \/ RelayFetchOf(r, {2})
                      \/ (RelaySend(r, Refused) \/ RelayDelete(r)) /\ UNCHANGED hist

WideBatchSpec == Init /\ [][WideBatchNext]_vars /\ WF_vars(WideBatchRelayStep)

\* The Relay keeps running: a driver loop invokes process_outbox again and
\* again and every await of an invocation returns; a bus outage ends.
RelayStep ==
    \E r \in Relays : \/ RelayFetch(r)
                      \/ (RelayPublish(r) \/ RelayDelete(r)) /\ UNCHANGED hist

LiveSpec == Spec /\ WF_vars(RelayStep) /\ WF_vars(BusRecovers)

\* One caller of append_events and the Relay, with the Relay's history kept.
AuditNext ==
    \/ \E w \in {"w1"} : AppendBegin(w, {"tA"})
    \/ \E w \in {"w1"} : CheckVersion(w)
    \/ \E w \in {"w1"} : InsertEvent(w)
    \/ \E w \in {"w1"} : InsertOutbox(w)
    \/ \E w \in {"w1"} : Commit(w)
    \/ \E w \in {"w1"} : Abort(w)
    \/ \E r \in Relays : RelayFetch(r)
    \/ \E r \in Relays : RelayPublish(r) /\ NoteRejected(r)
    \/ \E r \in Relays : RelayDelete(r) /\ NoteDeleted(r)
    \/ \E r \in Relays : RelayDeleteFails(r) /\ NoteDeleteFailed(r)
    \/ \E r \in Relays : RelayCrash(r) /\ NoteCrash(r)
    \/ BusOutage
    \/ BusRecovers

AuditSpec == Init /\ [][AuditNext]_vars

\* Two Relay workers on one outbox (the Relay scaled horizontally), one
\* caller of append_events, no faults.
ScaledInit == InitState(Workers, [e \in 1 .. MaxSubmitted |-> DefaultVariant(e)])

ScaledNext ==
    \/ \E w \in {"w1"} : AppendBegin(w, {"tA"})
    \/ \E w \in {"w1"} : CheckVersion(w)
    \/ \E w \in {"w1"} : InsertEvent(w)
    \/ \E w \in {"w1"} : InsertOutbox(w)
    \/ \E w \in {"w1"} : Commit(w)
    \/ \E r \in Workers : RelayFetch(r)
    \/ \E r \in Workers : RelayPublish(r) /\ UNCHANGED hist
    \/ \E r \in Workers : RelayDelete(r) /\ UNCHANGED hist

ScaledSpec == ScaledInit /\ [][ScaledNext]_vars

\* The aggregate_type arguments the topic derivation is applied to.
TopicAggregateTypes == {"Account", "account", "BUDGET", "Tax_2"}

\* The Relay alone on an outbox of two rows: two calls of append_events have
\* committed one event each, with any aggregate_type and tenant_id.
TopicInit ==
    \E ty1, ty2 \in TopicAggregateTypes, t1, t2 \in Tenants :
        LET a1 == [tenant_id |-> t1, aggregate_id |-> "X", aggregate_type |-> ty1,
                   expected_version |-> 0, new_events |-> << 1 >>]
            a2 == [tenant_id |-> t2, aggregate_id |-> "X", aggregate_type |-> ty2,
                   expected_version |-> IF t1 = t2 THEN 1 ELSE 0, new_events |-> << 2 >>]
        IN  /\ content = [e \in 1 .. MaxSubmitted |-> DefaultVariant(e)]
            /\ events = { EventRow(a1, 1, 1), EventRow(a2, 2, a2.expected_version + 1) }
            /\ outbox = { OutboxRow(a1, 1, 1, 0), OutboxRow(a2, 2, 2, 1) }
            /\ outboxSeq = 2
            /\ clock = 2
            /\ nextEid = 2
            /\ submitted = 2
            /\ last = [writer |-> "w1", args |-> a2,
                       current_version |-> a2.expected_version, inserted |-> 1,
                       overlapped |-> "none",
                       result |-> [kind |-> "ok", value |-> a2.expected_version + 1]]
            /\ appendedUnder = [e \in EventIds |->
                   IF e = 1 THEN t1 ELSE IF e = 2 THEN t2 ELSE "none"]
            /\ pc = [w \in Writers |-> "idle"]
            /\ args = [w \in Writers |-> NoArgs]
            /\ txTime = [w \in Writers |-> 0]
            /\ newVersion = [w \in Writers |-> 0]
            /\ idx = [w \in Writers |-> 1]
            /\ txEvents = [w \in Writers |-> {}]
            /\ txOutbox = [w \in Writers |-> {}]
            /\ cur = [w \in Writers |-> 0]
            /\ rival = [w \in Writers |-> "none"]
            /\ rpc = [r \in Relays |-> "idle"]
            /\ rrows = [r \in Relays |-> << >>]
            /\ ridx = [r \in Relays |-> 1]
            /\ rcount = [r \in Relays |-> 0]
            /\ rresult = [r \in Relays |-> NoResult]
            /\ rbatch = [r \in Relays |-> 0]
            /\ racked = [r \in Relays |-> 0]
            /\ bus = << >>
            /\ busUp = TRUE
            /\ faults = 0
            /\ loaded = NoLoad
            /\ rejected = {}
            /\ crashedAfterAck = {}
            /\ attempts = [id \in 1 .. MaxSubmitted |-> 0]
            /\ printed = NoLine
            /\ LakeUnused
    /\ content = [e \in 1 .. MaxSubmitted |-> DefaultVariant(e)]

TopicNext ==
    \/ \E r \in Relays : RelayFetch(r)
    \/ \E r \in Relays : RelayPublish(r) /\ UNCHANGED hist
    \/ \E r \in Relays : RelayDelete(r) /\ UNCHANGED hist
    \/ BusOutage
    \/ BusRecovers

TopicSpec == TopicInit /\ [][TopicNext]_vars

\* ------------------------------------------------------------------ claims
\* The events rows of one stream.
Stream(t, g) == { r \in events : r.tenant_id = t /\ r.aggregate_id = g }

\* C1: in every reachable state, the versions persisted for each
\* (tenant_id, aggregate_id) are exactly 1..N, N the number of rows of the
\* stream: no gap and no duplicate, whatever calls succeeded, failed or ran
\* concurrently.
C1_VersionsContiguous ==
    \A t \in Tenants, g \in Aggregates :
        { r.version : r \in Stream(t, g) } = 1 .. Cardinality(Stream(t, g))

\* C1 witness: a call lost the race for a version against a concurrent call
\* that committed it, and the stream holds that version.
C1_Witness ==
    /\ last.result.kind = "UniqueViolationError"
    /\ last.overlapped = "events"
    /\ Stream(last.args.tenant_id, last.args.aggregate_id) # {}

\* The head version of a stream: its largest persisted version, 0 when empty.
HeadVersion(rows, t, g) ==
    LET vs == { r.version : r \in { x \in rows : x.tenant_id = t /\ x.aggregate_id = g } }
    IN  IF vs = {} THEN 0 ELSE CHOOSE v \in vs : \A u \in vs : u <= v

\* C2 (the claim as stated): a call that commits has seen no other call on
\* the same stream with the same expected_version commit while its own
\* transaction was open past the version read, and the persisted rows of a
\* stream that came from different events have different versions.
C2_OverlappingCallsExclude ==
    /\ last.result.kind = "ok" => last.overlapped = "none"
    /\ \A t \in Tenants, g \in Aggregates : \A r1, r2 \in Stream(t, g) :
           r1.event_id # r2.event_id => r1.version # r2.version

\* C2, for the calls that insert events: of two overlapping calls with the
\* same expected_version that both carry events, at most one commits.
C2_CallsWithEventsExclude ==
    (last.result.kind = "ok" /\ Len(last.args.new_events) > 0)
        => last.overlapped # "events"

\* C3: a version check that finds the head of the stream different from
\* expected_version ends the call with a ConcurrencyError carrying the
\* aggregate_id, the expected and the actual head version, and the step
\* leaves the events and outbox tables unchanged.
C3_ConflictOnMismatch ==
    [][ \A w \in Writers :
          LET a == args[w]
              head == HeadVersion(events, a.tenant_id, a.aggregate_id)
          IN  ( /\ pc[w] = "read_version"
                /\ pc'[w] # "read_version"
                /\ last'.result.kind # "Aborted"
                /\ head # a.expected_version )
              => ( /\ pc'[w] = "idle"
                   /\ last'.writer = w
                   /\ last'.result = [kind |-> "ConcurrencyError",
                                      aggregate_id |-> a.aggregate_id,
                                      expected_version |-> a.expected_version,
                                      actual_version |-> head]
                   /\ events' = events
                   /\ outbox' = outbox ) ]_vars

\* C3 witness: a call with expected_version 1 met a head version of 2.
C3_Witness ==
    /\ last.result.kind = "ConcurrencyError"
    /\ last.result.expected_version = 1
    /\ last.result.actual_version = 2
    /\ Cardinality(events) = 2

\* C4: every outbox row belongs to a committed events row; the step that
\* commits events rows commits exactly one outbox row per new events row,
\* with its event_id, and outbox rows appear in no other step.
C4_EventAndOutboxAtomic ==
    /\ [](\A o \in outbox : \E e \in events : e.event_id = o.event_id)
    /\ [][ /\ \A e \in events' \ events :
                Cardinality({ o \in outbox' \ outbox : o.event_id = e.event_id }) = 1
           /\ \A o \in outbox' \ outbox :
                \E e \in events' \ events : e.event_id = o.event_id ]_vars

\* C4 witness: a call committed two events and the outbox holds their rows.
C4_Witness ==
    /\ last.result.kind = "ok"
    /\ Len(last.args.new_events) = 2
    /\ { o.event_id : o \in outbox } = Range(last.args.new_events)
    /\ { e.event_id : e \in events } = Range(last.args.new_events)

\* C5: a step that ends a call without a commit (conflict, failed
\* statement, cancellation) leaves the events and outbox tables as they
\* are, and rows are added to either table only by the step that commits a
\* call: rows inserted before a failure are never persisted.
C5_RollbackLeavesNothing ==
    [][ /\ \A w \in Writers :
              (pc[w] # "idle" /\ pc'[w] = "idle" /\ last'.result.kind # "ok")
              => (events' = events /\ outbox' = outbox)
        /\ (~(events' \subseteq events) \/ ~(outbox' \subseteq outbox))
              => \E w \in Writers : /\ pc[w] = "commit"
                                    /\ pc'[w] = "idle"
                                    /\ last'.writer = w
                                    /\ last'.result.kind = "ok" ]_vars

\* C5 witness: a call of two events failed after its first events row was
\* inserted, and no row is persisted.
C5_Witness ==
    /\ last.result.kind = "Aborted"
    /\ Len(last.args.new_events) = 2
    /\ last.inserted >= 1
    /\ events = {}
    /\ outbox = {}

\* The event ids whose publish the bus acknowledged.
AckedKeys == { bus[i].key : i \in 1 .. Len(bus) }

\* C6: at-least-once safety: every committed event whose outbox row is
\* absent has been acknowledged by the bus, and a step that removes an
\* outbox row removes only rows whose event the bus had acknowledged before.
C6_DeletedOnlyAfterAck ==
    /\ [](\A e \in events :
            (\A o \in outbox : o.event_id # e.event_id) => e.event_id \in AckedKeys)
    /\ [][ \A o \in outbox \ outbox' : o.event_id \in AckedKeys ]_vars

\* C6 witness: the Relay deleted the outbox row of a committed event after
\* a bus outage and the bus has acknowledged the event.
C6_Witness ==
    /\ faults >= 1
    /\ \E e \in events : /\ \A o \in outbox : o.event_id # e.event_id
                         /\ e.event_id \in AckedKeys

\* C7: eventual delivery: while process_outbox keeps being invoked and bus
\* outages end, every committed event is eventually acknowledged by the bus.
C7_EventuallyAcked ==
    \A id \in EventIds :
        (\E e \in events : e.event_id = id) ~> (id \in AckedKeys)

\* C7 witness: an event was committed during a bus outage, or a Relay fault
\* happened, and the bus has acknowledged every committed event since.
C7_Witness ==
    /\ faults >= 1
    /\ events # {}
    /\ \A e \in events : e.event_id \in AckedKeys
    /\ outbox = {}

\* C8: a call that succeeded with n events on a stream it read at version c
\* returned c + n, and the i-th event of its list is persisted in its stream
\* with version c + i.
C8_VersionsAssignedInOrder ==
    last.result.kind = "ok" =>
        LET a == last.args
            c == last.current_version
            n == Len(a.new_events)
        IN  /\ last.result.value = c + n
            /\ \A i \in 1 .. n :
                 \E r \in events : /\ r.event_id = a.new_events[i]
                                   /\ r.version = c + i
                                   /\ r.tenant_id = a.tenant_id
                                   /\ r.aggregate_id = a.aggregate_id

\* C8 witness: a call appended one event to a stream at version 1 and
\* returned 2.
C8_Witness ==
    /\ last.result.kind = "ok"
    /\ last.current_version = 1
    /\ Len(last.args.new_events) = 1
    /\ last.result.value = 2

\* C9: the records load_events returned for a tenant are all of events that
\* were appended by calls made under that tenant.
C9_LoadTenantIsolation ==
    loaded.result.kind = "ok" =>
        \A i \in 1 .. Len(loaded.result.value) :
            appendedUnder[loaded.result.value[i].event_id] = loaded.tenant_id

\* C9 witness: both tenants have events for the same aggregate_id and
\* load_events returned records for one of them.
C9_Witness ==
    /\ loaded.result.kind = "ok"
    /\ loaded.tenant_id = "tA"
    /\ \E e \in events : e.tenant_id = "tB" /\ e.aggregate_id = loaded.aggregate_id

\* C10: the version check is scoped per tenant: it passes exactly when
\* expected_version is the head version of the caller's own
\* (tenant_id, aggregate_id) stream, a commit leaves the head version of
\* every other tenant's stream unchanged, and the first event of a
\* successful call with expected_version 0 has version 1 in its stream.
C10_VersionCheckPerTenant ==
    /\ [][ \A w \in Writers :
             /\ ( /\ pc[w] = "read_version"
                  /\ pc'[w] # "read_version"
                  /\ last'.result.kind # "Aborted" )
                => ( pc'[w] # "idle" <=>
                       args[w].expected_version =
                           HeadVersion(events, args[w].tenant_id, args[w].aggregate_id) )
             /\ (pc[w] = "commit" /\ pc'[w] = "idle")
                => \A t \in Tenants \ {args[w].tenant_id}, g \in Aggregates :
                       HeadVersion(events', t, g) = HeadVersion(events, t, g) ]_vars
    /\ []( ( /\ last.result.kind = "ok"
             /\ last.args.expected_version = 0
             /\ Len(last.args.new_events) > 0 )
           => \E r \in Stream(last.args.tenant_id, last.args.aggregate_id) :
                  r.event_id = last.args.new_events[1] /\ r.version = 1 )

\* C10 witness: tenant tB appended with expected_version 0 for the
\* aggregate_id for which tenant tA already has an event, and got version 1.
C10_Witness ==
    /\ last.result.kind = "ok"
    /\ last.args.tenant_id = "tB"
    /\ last.args.expected_version = 0
    /\ last.result.value = 1
    /\ Stream("tA", last.args.aggregate_id) # {}

\* C11: the records load_events returns are all the events rows of the
\* (tenant_id, aggregate_id) stream, each once, in strictly ascending
\* version order, whatever their created_at timestamps are.
C11_LoadAscendingByVersion ==
    /\ [](loaded.result.kind = "ok" =>
            \A i, j \in 1 .. Len(loaded.result.value) :
                i < j => loaded.result.value[i].version < loaded.result.value[j].version)
    /\ [][ (loaded' # loaded /\ loaded'.result.kind = "ok") =>
              LET value == loaded'.result.value
                  rows == Stream(loaded'.tenant_id, loaded'.aggregate_id)
              IN  /\ Len(value) = Cardinality(rows)
                  /\ \A r \in rows : \E i \in 1 .. Len(value) :
                         /\ value[i].event_id = r.event_id
                         /\ value[i].version = r.version
                         /\ value[i].created_at = r.created_at ]_vars

\* C11 witness: load_events returned versions 1 and 2 of a stream whose
\* version 1 carries a later created_at than its version 2.
C11_Witness ==
    /\ loaded.result.kind = "ok"
    /\ Len(loaded.result.value) = 2
    /\ loaded.result.value[1].version = 1
    /\ loaded.result.value[2].version = 2
    /\ loaded.result.value[1].created_at > loaded.result.value[2].created_at

\* C12: load_events ends with AggregateNotFoundError, carrying the
\* aggregate_id and aggregate_type it was called with, exactly when no
\* events row matches (tenant_id, aggregate_id); a list it returns is never
\* empty.
C12_NotFoundIffNoRows ==
    [][ loaded' # loaded =>
          LET rows == Stream(loaded'.tenant_id, loaded'.aggregate_id)
          IN  /\ rows = {} <=>
                    loaded'.result = [kind |-> "AggregateNotFoundError",
                                      aggregate_id |-> loaded'.aggregate_id,
                                      aggregate_type |-> loaded'.aggregate_type]
              /\ rows # {} <=>
                    (loaded'.result.kind = "ok" /\ Len(loaded'.result.value) > 0) ]_vars

\* C12 witness: load_events raised AggregateNotFoundError for a tenant
\* without events while another tenant has events for the same aggregate_id.
C12_Witness ==
    /\ loaded.result.kind = "AggregateNotFoundError"
    /\ loaded.tenant_id = "tB"
    /\ Stream("tB", loaded.aggregate_id) = {}
    /\ Stream("tA", loaded.aggregate_id) # {}

\* C13: within one invocation of process_outbox, a publish that fails
\* leaves the outbox and the bus as they are and the loop goes on with the
\* next fetched row; the rows are taken one after the other, and the
\* invocation returns only after the last fetched row.
C13_FailedRowKeptLoopContinues ==
    [][ \A r \in Relays :
          /\ ( /\ rpc[r] = "publish"
               /\ ~busUp
               /\ (rpc'[r] # rpc[r] \/ ridx'[r] # ridx[r])
               /\ rresult'[r].kind # "crashed" )
             => ( /\ outbox' = outbox
                  /\ bus' = bus
                  /\ IF ridx[r] < Len(rrows[r])
                     THEN /\ rpc'[r] = "publish"
                          /\ ridx'[r] = ridx[r] + 1
                          /\ rrows'[r] = rrows[r]
                     ELSE /\ rpc'[r] = "idle"
                          /\ rresult'[r].kind = "ok" )
          /\ (rpc[r] # "idle" /\ rpc'[r] = "idle" /\ rresult'[r].kind = "ok")
             => ridx[r] = Len(rrows[r])
          /\ (rpc[r] # "idle" /\ rpc'[r] # "idle" /\ ridx'[r] # ridx[r])
             => (ridx'[r] = ridx[r] + 1 /\ rpc'[r] = "publish") ]_vars

\* C13 witness: in one invocation the publish of the first fetched row
\* failed, the row is still in the outbox, and the bus has acknowledged the
\* second fetched row.
C13_Witness ==
    \E r \in Relays :
        /\ rpc[r] = "delete"
        /\ ridx[r] = 2
        /\ racked[r] = 1
        /\ rrows[r][1] \in outbox
        /\ rrows[r][1].event_id \notin AckedKeys
        /\ rrows[r][2].event_id \in AckedKeys

\* C14: an invocation process_outbox(batch_size) works on at most batch_size
\* rows, the value it returns is the number of publishes the bus
\* acknowledged to it, and on an empty outbox it returns 0 without
\* publishing anything or changing the tables.
C14_ReturnsPublishedCount ==
    /\ [](\A r \in Relays : rpc[r] # "idle" => Len(rrows[r]) <= rbatch[r])
    /\ [][ \A r \in Relays :
             /\ (rpc[r] # "idle" /\ rpc'[r] = "idle" /\ rresult'[r].kind = "ok")
                => rresult'[r].value = racked[r]
             /\ (rpc[r] = "idle" /\ outbox = {} /\ relayVars' # relayVars)
                => ( /\ rpc'[r] = "idle"
                     /\ rresult'[r] = [kind |-> "ok", value |-> 0]
                     /\ bus' = bus
                     /\ outbox' = outbox
                     /\ events' = events ) ]_vars

\* C15: the rows an invocation of process_outbox works on are in ascending
\* (created_at, id) order, rows of equal created_at in insertion order (by
\* id), and they are the batch_size oldest rows of the outbox at the fetch.
C15_FifoByCreatedAtThenId ==
    /\ [](\A r \in Relays : \A i, j \in 1 .. Len(rrows[r]) :
            i < j =>
              LET x == rrows[r][i]
                  y == rrows[r][j]
              IN  \/ x.created_at < y.created_at
                  \/ (x.created_at = y.created_at /\ x.id < y.id))
    /\ [][ \A r \in Relays :
             (rpc[r] = "idle" /\ rpc'[r] = "publish")
             => ( /\ Range(rrows'[r]) \subseteq outbox
                  /\ \A x \in Range(rrows'[r]), y \in outbox \ Range(rrows'[r]) :
                         \/ x.created_at < y.created_at
                         \/ (x.created_at = y.created_at /\ x.id < y.id)
                  /\ Len(rrows'[r]) = IF Cardinality(outbox) < rbatch'[r]
                                      THEN Cardinality(outbox) ELSE rbatch'[r] ) ]_vars

\* C16: bus outage.  While the bus rejects publishes, a call of
\* append_events that reached its commit can commit; a rejected publish
\* leaves the outbox and the bus as they are, and an invocation of
\* process_outbox to which the bus acknowledged nothing returns 0.  The
\* rows retained are published in insertion order once the bus is back:
\* when the bus acknowledges a row it had rejected before, every other such
\* row still in the outbox that was inserted before it (smaller id) has
\* been attempted earlier in the same invocation.
C16_OutageRetainsThenDrainsInOrder ==
    /\ [](\A w \in Writers : (~busUp /\ pc[w] = "commit") => ENABLED Commit(w))
    /\ [][ \A r \in Relays :
             /\ ( /\ rpc[r] # "idle"
                  /\ rpc'[r] = "idle"
                  /\ rresult'[r].kind = "ok"
                  /\ racked[r] = 0 )
                => rresult'[r].value = 0
             /\ (rpc[r] = "publish" /\ ~busUp /\ relayVars' # relayVars)
                => (outbox' = outbox /\ bus' = bus)
             /\ ( /\ rpc[r] = "publish"
                  /\ bus' # bus
                  /\ rrows[r][ridx[r]].id \in rejected )
                => \A o \in outbox :
                      (o.id \in rejected /\ o.id < rrows[r][ridx[r]].id)
                      => \E i \in 1 .. (ridx[r] - 1) : rrows[r][i] = o ]_vars

\* The number of publishes with key k the bus has acknowledged.
Acks(k) == Cardinality({ i \in 1 .. Len(bus) : bus[i].key = k })

C18_EmptyAppendRejected ==
    ( /\ last.writer # "none"
      /\ Len(last.args.new_events) = 0
      /\ last.result.kind # "Aborted" )
    => last.result.kind = "InvalidArgument"

\* C19: a call of append_events with a negative expected_version ends with
\* InvalidArgument, not with a concurrency conflict, whatever the stream
\* holds (a cancelled or failed call aside), and the step that ends it
\* leaves the events and outbox tables unchanged.
C19_NegativeExpectedRejected ==
    /\ []( ( /\ last.writer # "none"
             /\ last.args.expected_version < 0
             /\ last.result.kind # "Aborted" )
           => last.result.kind = "InvalidArgument" )
    /\ [][ \A w \in Writers :
             (pc[w] # "idle" /\ pc'[w] = "idle" /\ args[w].expected_version < 0)
             => (events' = events /\ outbox' = outbox) ]_vars

\* C20: a call with events that passed its version check and whose insert
\* then met the version a concurrent call on the same stream had committed
\* meanwhile (its event ids being new) ends with a ConcurrencyError (a
\* cancelled or failed call aside), and the step that ends it leaves the
\* tables unchanged.
C20_UniqueViolationIsConflict ==
    /\ []( ( /\ last.writer # "none"
             /\ last.overlapped = "events"
             /\ Len(last.args.new_events) > 0
             /\ \A e \in events : e.event_id \notin Range(last.args.new_events)
             /\ last.result.kind # "Aborted" )
           => last.result.kind = "ConcurrencyError" )
    /\ [][ \A w \in Writers :
             (pc[w] = "insert_event" /\ pc'[w] = "idle")
             => (events' = events /\ outbox' = outbox) ]_vars

\* The event ids of the call's list that are persisted already.
Persisted(new_events) == { e \in Range(new_events) : \E x \in events : x.event_id = e }

\* C21 (amended): event_id is unique across the events table in every
\* reachable state.  A call of append_events whose list holds an event_id
\* that is persisted already (under any tenant or aggregate) never succeeds
\* and the step that ends it leaves the events and outbox tables unchanged.
\* It fails at its version check with a ConcurrencyError when its
\* expected_version is not the head version; when an insert of it fails on
\* the event_id alone, the error is the unique violation on events_pkey,
\* which is no ConcurrencyError and names no version constraint.
C21_DuplicateEventIdNeverPersists ==
    /\ [](\A x, y \in events : x.event_id = y.event_id => x = y)
    /\ [][ \A w \in Writers :
             /\ (pc[w] # "idle" /\ pc'[w] = "idle" /\ Persisted(args[w].new_events) # {})
                => ( /\ last'.result.kind \in {"ConcurrencyError", "UniqueViolationError",
                                               "Aborted"}
                     /\ events' = events
                     /\ outbox' = outbox )
             /\ ( /\ pc[w] = "insert_event"
                  /\ pc'[w] = "idle"
                  /\ last'.result.kind # "Aborted"
                  /\ EventsViolated(EventRow(args[w], args[w].new_events[idx[w]],
                                             NextVersion(newVersion[w])),
                                    events \cup txEvents[w]) = {"events_pkey"} )
                => last'.result = [kind |-> "UniqueViolationError",
                                   constraint_name |-> "events_pkey"] ]_vars

\* C21 witness: a call under tenant tB whose expected_version was the head
\* of its stream resubmitted an event committed under tenant tA; it ended
\* with the unique violation on events_pkey and the event is persisted once.
C21_Witness ==
    /\ last.writer # "none"
    /\ last.args.tenant_id = "tB"
    /\ last.result = [kind |-> "UniqueViolationError", constraint_name |-> "events_pkey"]
    /\ \E e \in Range(last.args.new_events) :
           /\ appendedUnder[e] = "tA"
           /\ Cardinality({ x \in events : x.event_id = e }) = 1

\* C21 (the claim as stated): a call whose list holds an event_id that is
\* persisted already ends with an error that is no version conflict (a
\* cancelled or failed call aside) and leaves the tables unchanged.
C21_DuplicateFailsDistinctly ==
    [][ \A w \in Writers :
          ( /\ pc[w] # "idle"
            /\ pc'[w] = "idle"
            /\ Persisted(args[w].new_events) # {}
            /\ last'.result.kind # "Aborted" )
          => ( /\ last'.result = [kind |-> "UniqueViolationError",
                                  constraint_name |-> "events_pkey"]
               /\ events' = events
               /\ outbox' = outbox ) ]_vars

\* C22: the events table is append-only: every step of append_events and of
\* process_outbox leaves each events row of the state before it in place and
\* unchanged.
C22_EventsAppendOnly ==
    [][ \A e \in events : e \in events' ]_vars

\* C22 witness: the Relay has published and deleted the outbox rows of two
\* committed events, a later call failed its version check, and both events
\* rows are in place.
C22_Witness ==
    /\ Cardinality(events) = 2
    /\ outbox = {}
    /\ Len(bus) >= 2
    /\ last.result.kind = "ConcurrencyError"

\* C23: with two Relay workers on one outbox, each outbox row is claimed by
\* at most one worker: no row is in the fetched rows of both workers, and
\* (no worker failing) no event is acknowledged by the bus twice.
C23_RowClaimedByOneWorker ==
    /\ \A r1, r2 \in Workers :
           r1 # r2 => Range(rrows[r1]) \cap Range(rrows[r2]) = {}
    /\ \A e \in events : Acks(e.event_id) <= 1

\* C24: bounded retries: a row whose publish the bus has rejected
\* MaxAttempts times in a row is skipped by later invocations of
\* process_outbox (no fetch returns it) and its publish is never attempted
\* again.
C24_DeadLetteredAfterMaxAttempts ==
    [][ \A r \in Relays :
          /\ (rpc[r] = "idle" /\ rpc'[r] = "publish")
             => \A i \in 1 .. Len(rrows'[r]) : attempts[rrows'[r][i].id] < MaxAttempts
          /\ ( /\ rpc[r] = "publish"
               /\ (rpc'[r] # "publish" \/ ridx'[r] # ridx[r])
               /\ rresult'[r].kind # "crashed" )
             => attempts[rrows[r][ridx[r]].id] < MaxAttempts ]_vars

\* C25: per-aggregate order on the way to the bus: when the bus acknowledges
\* the publish of an event, every event of the same (tenant_id,
\* aggregate_id) with a lower version has been acknowledged before, also
\* after failed publishes and retries.
C25_LowerVersionAckedFirst ==
    [][ \A r \in Relays :
          (rpc[r] = "publish" /\ Len(bus') = Len(bus) + 1)
          => \A e2 \in events : e2.event_id = bus'[Len(bus')].key =>
                 \A e1 \in Stream(e2.tenant_id, e2.aggregate_id) :
                     e1.version < e2.version => e1.event_id \in AckedKeys ]_vars

\* The outbox rows open transactions have inserted and not committed.
PendingOutbox == UNION { txOutbox[w] : w \in Writers }

\* C26: the Relay publishes only committed data: a fetch returns committed
\* outbox rows only, the rows the Relay works on are never rows of an open
\* transaction, and every message acknowledged by the bus carries the
\* event_id and the payload of a committed events row.
C26_PublishesOnlyCommitted ==
    /\ [][ \A r \in Relays :
             (rpc[r] = "idle" /\ rpc'[r] = "publish")
             => Range(rrows'[r]) \subseteq outbox ]_vars
    /\ [](\A r \in Relays : Range(rrows[r]) \cap PendingOutbox = {})
    /\ [](\A i \in 1 .. Len(bus) :
            \E e \in events : e.event_id = bus[i].key /\ e.event_data = bus[i].value)

\* C26 witness: the bus has acknowledged a committed event while a call of
\* append_events holds an inserted, uncommitted outbox row of another event,
\* which is nowhere on the bus.
C26_Witness ==
    /\ Len(bus) >= 1
    /\ \E o \in PendingOutbox : o.event_id \notin AckedKeys
    /\ \E r \in Relays : rpc[r] = "delete"

\* Whether low is the lowercase form of str: the same characters, each
\* uppercase letter replaced by its lowercase letter.
IsLowercaseOf(low, str) ==
    /\ Len(low) = Len(str)
    /\ \A i \in 1 .. Len(str) :
           IF \E k \in 1 .. 26 : str[i] = UppercaseLetters[k]
           THEN \E k \in 1 .. 26 : str[i] = UppercaseLetters[k] /\ low[i] = LowercaseLetters[k]
           ELSE low[i] = str[i]

IndexOf(chars, c) ==
    IF \E i \in 1 .. Len(chars) : chars[i] = c
    THEN CHOOSE i \in 1 .. Len(chars) :
             chars[i] = c /\ \A k \in 1 .. (i - 1) : chars[k] # c
    ELSE 0

\* int(chars) of a sequence of decimal digits
RECURSIVE StrToNat(_)
StrToNat(chars) ==
    IF chars = << >> THEN 0
    ELSE 10 * StrToNat(SubSeq(chars, 1, Len(chars) - 1))
             + (IndexOf(Digits, chars[Len(chars)]) - 1)

\* str(int(chars)): the digits without leading zeros
RECURSIVE StripZeros(_)
StripZeros(chars) ==
    IF Len(chars) > 1 /\ chars[1] = "0" THEN StripZeros(Tail(chars)) ELSE chars

\* Decimal(chars), the value a reader of the payload gets from the string:
\* [sign] digits [. digits] [E [sign] digits], NaN or Infinity.  The
\* coefficient is the digits of both parts, the exponent the one written
\* less the number of digits after the point.
ParseDecimal(chars) ==
    LET sign == IF chars[1] = "-" THEN 1 ELSE 0
        body == IF chars[1] \in {"-", "+"} THEN Tail(chars) ELSE chars
        ePos == IndexOf(body, "E")
        mantissa == IF ePos = 0 THEN body ELSE SubSeq(body, 1, ePos - 1)
        written == IF ePos = 0 THEN << >> ELSE SubSeq(body, ePos + 1, Len(body))
        e == IF written = << >> THEN 0
             ELSE IF written[1] = "-" THEN 0 - StrToNat(Tail(written))
             ELSE IF written[1] = "+" THEN StrToNat(Tail(written))
             ELSE StrToNat(written)
        dot == IndexOf(mantissa, ".")
        intpart == IF dot = 0 THEN mantissa ELSE SubSeq(mantissa, 1, dot - 1)
        fracpart == IF dot = 0 THEN << >> ELSE SubSeq(mantissa, dot + 1, Len(mantissa))
    IN  IF body = << "N", "a", "N" >> THEN DecimalSpecial(sign, "NaN")
        ELSE IF body = << "I", "n", "f", "i", "n", "i", "t", "y" >>
             THEN DecimalSpecial(sign, "Infinity")
             ELSE Decimal(sign, StripZeros(intpart \o fracpart), e - Len(fracpart))

\* The event the caller constructed for event id e.
EventOfId(e) == EventTable[e][content[e]]

\* The names of the Decimal fields of an event.
DecimalFields(event) == { k \in DOMAIN event.fields : event.fields[k].type = "Decimal" }

\* The records load_events returned last, none when it raised.
LoadedRecords ==
    IF loaded.result.kind = "ok" THEN Range(loaded.result.value) ELSE {}

\* C28: a Decimal field of an appended event is stored as a JSON string, the
\* characters of str(value), never as a number; load_events returns the
\* same characters as a str, and they denote the value the caller gave:
\* the same sign, digits and exponent (scale).
C28_DecimalStoredAndLoadedAsString ==
    /\ \A row \in events :
           \A k \in DecimalFields(EventOfId(row.event_id)) :
               /\ Text(row.event_data).members[k].j = "string"
               /\ Text(row.event_data).members[k].chars
                      = DecimalStr(EventOfId(row.event_id).fields[k])
    /\ \A rec \in LoadedRecords :
           \A k \in DecimalFields(EventOfId(rec.event_id)) :
               /\ rec.event_data.items[k].type = "str"
               /\ \E row \in events :
                      /\ row.event_id = rec.event_id
                      /\ rec.event_data.items[k].chars
                             = Text(row.event_data).members[k].chars
               /\ ParseDecimal(rec.event_data.items[k].chars)
                      = EventOfId(rec.event_id).fields[k]

\* C28 witness: load_events returned the AccountCreated appended with
\* initial_balance Decimal("10000.00") at version 1, and its
\* initial_balance is the str "10000.00".
C28_Witness ==
    /\ loaded.result.kind = "ok"
    /\ Len(loaded.result.value) >= 1
    /\ loaded.result.value[1].version = 1
    /\ loaded.result.value[1].event_type = "AccountCreated"
    /\ EventOfId(loaded.result.value[1].event_id).fields.initial_balance = Decimals[1]
    /\ loaded.result.value[1].event_data.items.initial_balance
           = Str(<< "1", "0", "0", "0", "0", ".", "0", "0" >>)

\* C28, a value str() writes in scientific notation: load_events returned
\* the AccountCreated appended with initial_balance Decimal("1E-7").
C28_WitnessScientific ==
    /\ loaded.result.kind = "ok"
    /\ \E rec \in LoadedRecords :
           /\ rec.event_type = "AccountCreated"
           /\ rec.event_data.items.initial_balance = Str(<< "1", "E", "-", "7" >>)

\* ------------------------------------------------------------ round trip
\* a == b of Python between a value json.loads returned and the value of
\* the event's field, a dict against the fields of a dataclass key by key:
\* a str equals a str or a str-based Enum with the same characters, an int
\* an int, None is None; a str never equals a UUID, a Decimal or a
\* datetime.
RECURSIVE PyEq(_, _)
PyEq(a, b) ==
    IF a.type = "dict" /\ b.type = "dataclass"
    THEN /\ DOMAIN a.items = DOMAIN b.fields
         /\ \A k \in DOMAIN a.items : PyEq(a.items[k], b.fields[k])
    ELSE IF a.type = "str" /\ b.type = "str" THEN a.chars = b.chars
    ELSE IF a.type = "str" /\ b.type = "Enum" THEN a.chars = b.value.chars
    ELSE IF a.type = "int" /\ b.type = "int" THEN a.int = b.int
    ELSE a.type = "None" /\ b.type = "None"

\* The fields of an event whose decoded value differs from the value the
\* caller gave.
DifferingFields(rec) ==
    { k \in DOMAIN EventOfId(rec.event_id).fields :
        ~PyEq(rec.event_data.items[k], EventOfId(rec.event_id).fields[k]) }

\* C29: the event_data of every record load_events returns equals the event
\* that was appended, field by field, the Decimal and datetime fields and
\* the nested metadata included.
C29_RoundTripFieldwise ==
    \A rec \in LoadedRecords : PyEq(rec.event_data, EventOfId(rec.event_id))

\* What the code does instead: the decoded record has the keys of the event
\* and every str, Enum, int and None field compares equal, while every
\* UUID, Decimal and datetime field comes back as the str the encoder wrote.
C29_DecodedFieldsAreStrings ==
    \A rec \in LoadedRecords :
        LET event == EventOfId(rec.event_id)
        IN  /\ DOMAIN rec.event_data.items = DOMAIN event.fields
            /\ \A k \in DOMAIN event.fields :
                   IF event.fields[k].type \in {"UUID", "Decimal", "datetime"}
                   THEN /\ rec.event_data.items[k].type = "str"
                        /\ k \in DifferingFields(rec)
                   ELSE IF k = "metadata"
                        THEN /\ rec.event_data.items[k].items.timestamp.type = "str"
                             /\ rec.event_data.items[k].items.event_id.type = "str"
                             /\ PyEq(rec.event_data.items[k].items.schema_version,
                                     event.fields[k].fields.schema_version)
                        ELSE k \notin DifferingFields(rec)

\* C29: a load returned the AccountCreated appended with initial_balance
\* Decimal("10000.00").
C29_Loaded ==
    /\ loaded.result.kind = "ok"
    /\ \E rec \in LoadedRecords :
           EventOfId(rec.event_id) = EventTable[rec.event_id][1]

\* ---------------------------------------------------- unrepresentable values
\* An event with a field the payload format cannot represent: a Decimal
\* that is not finite (NaN, Infinity) or a datetime without tzinfo.
Unrepresentable(event) ==
    \E k \in DOMAIN event.fields :
        \/ event.fields[k].type = "Decimal" /\ event.fields[k].special # ""
        \/ event.fields[k].type = "datetime" /\ ~event.fields[k].aware

\* C30: no row of events or outbox, committed or pending in a transaction,
\* carries an event with an unrepresentable value, and an append_events
\* call whose batch holds such an event does not return a version (it
\* fails, with EncodeError when it gets as far as encoding the event).
C30_UnrepresentableFailsWithEncodeError ==
    /\ \A row \in events \cup outbox
                     \cup UNION { txEvents[w] \cup txOutbox[w] : w \in Writers } :
           ~Unrepresentable(EventOfId(row.event_id))
    /\ (last.writer # "none" /\ last.result.kind = "ok")
       => \A i \in 1 .. Len(last.args.new_events) :
              ~Unrepresentable(EventOfId(last.args.new_events[i]))

\* What the code does instead: json.dumps raises for no Decimal and no
\* datetime, so such an event is encoded ("NaN", "-Infinity", an ISO string
\* without offset) and persisted like any other; the only error of the
\* encoder is TypeError, for a value of a type json does not know, and then
\* nothing of the call is persisted.
C30_OnlyTypeErrorFromEncoder ==
    /\ \A e \in 1 .. MaxSubmitted : \A i \in EventVariants :
           Payloads[e][i].j = "raise"
           <=> \E k \in DOMAIN EventTable[e][i].fields :
                   EventTable[e][i].fields[k].type = "set"
    /\ last.result.kind # "EncodeError"
    /\ \A row \in events \cup outbox : Text(row.event_data).j = "object"

\* C30: an event with initial_balance Decimal("NaN") was appended and
\* committed: its row is in events with the payload string "NaN", and its
\* outbox row is pending.
C30_NaNPersisted ==
    /\ last.result.kind = "ok"
    /\ \E row \in events :
           /\ EventOfId(row.event_id).class = "AccountCreated"
           /\ EventOfId(row.event_id).fields.initial_balance = Decimals[6]
           /\ Text(row.event_data).members.initial_balance
                  = JsonString(<< "N", "a", "N" >>)
           /\ \E o \in outbox : o.event_id = row.event_id

\* C31: process_outbox changes the database only by deleting outbox rows by
\* id.  A step of the Relay leaves table events as it is, adds no row to
\* outbox, and removes from outbox at most the row its DELETE names; and no
\* step at all changes a field of an outbox row: a row with the id of a row
\* of the state before is that row.
C31_RelayOnlyDeletesOutboxRows ==
    [][ /\ \A o2 \in outbox' : \A o \in outbox : o.id = o2.id => o = o2
        /\ relayVars' # relayVars
           => /\ events' = events
              /\ outboxSeq' = outboxSeq
              /\ outbox' \subseteq outbox
              /\ \A o \in outbox \ outbox' :
                     \E r \in Relays : /\ rpc[r] = "delete"
                                       /\ o.id = rrows[r][ridx[r]].id ]_vars

\* C31 witness: after a fault, an invocation has published and deleted one
\* of two outbox rows and returned 1: the other row, never acknowledged, is
\* in the outbox with the event_id and event_data of its events row, and
\* both events rows are in place.
C31_Witness ==
    /\ Cardinality(events) = 2
    /\ Cardinality(outbox) = 1
    /\ \E r \in Relays : rpc[r] = "idle" /\ rresult[r] = [kind |-> "ok", value |-> 1]
    /\ Len(bus) = 1
    /\ \E o \in outbox : \E e \in events :
           /\ o.event_id = e.event_id
           /\ o.event_data = e.event_data
           /\ bus[1].key # o.event_id
    /\ faults = 1

\* The columns an outbox row shares with the events row of its event.
SharedColumns(row) ==
    [event_id |-> row.event_id, aggregate_type |-> row.aggregate_type,
     event_type |-> row.event_type, event_data |-> row.event_data,
     tenant_id |-> row.tenant_id]

\* C32: an outbox row has the event_id, aggregate_type, event_type,
\* event_data and tenant_id of the events row written in the same
\* transaction, and a message the Relay published has the event_id of an
\* events row as its key and that row's event_data, the same text, as its
\* value.
C32_OutboxAndMessageCarryTheEvent ==
    /\ \A w \in Writers : \A o \in txOutbox[w] :
           \E e \in txEvents[w] : SharedColumns(o) = SharedColumns(e)
    /\ \A o \in outbox : \E e \in events : SharedColumns(o) = SharedColumns(e)
    /\ \A i \in 1 .. Len(bus) :
           \E e \in events : /\ bus[i].key = e.event_id
                             /\ bus[i].value = e.event_data
                             /\ Text(bus[i].value) = Text(e.event_data)
                             /\ Text(bus[i].value) = JsonDumps(asdict(EventOfId(e.event_id)))

\* C32 witness: one call appended an AccountCreated and an AccountRenamed
\* for tenant tB under aggregate_type "BUDGET"; the Relay has published
\* both, each message with the payload of its own event, and one outbox row
\* is still there.
C32_Witness ==
    /\ Cardinality(events) = 2
    /\ \A e \in events : e.tenant_id = "tB" /\ e.aggregate_type = "BUDGET"
    /\ \E e1, e2 \in events : e1.version = 1 /\ e2.version = 2 /\ e1.event_type # e2.event_type
    /\ Len(bus) = 2
    /\ Text(bus[1].value) # Text(bus[2].value)
    /\ Cardinality(outbox) = 1
    /\ \E r \in Relays : rpc[r] = "delete"

\* A per-row failure is swallowed at this step: worker r is at row and the
\* except branch runs, for a send that raised or for a DELETE that raised.
Swallows(r) ==
    \/ /\ rpc[r] = "publish" /\ ~busUp
       /\ << rpc[r], ridx[r], rresult[r] >> # << rpc'[r], ridx'[r], rresult'[r] >>
       /\ rresult'[r].kind # "crashed"
    \/ /\ rpc[r] = "delete" /\ faults' = faults + 1
       /\ << rpc[r], ridx[r], rresult[r] >> # << rpc'[r], ridx'[r], rresult'[r] >>
       /\ rresult'[r].kind # "crashed"

\* C33: every per-row failure process_outbox swallows is surfaced as a line
\* that identifies the row by its outbox id and by its event id: the line
\* printed at the step holds str(row['id']) and str(row['event_id']).
C33_SwallowedFailureLogsBothIds ==
    [][ \A r \in Relays :
            Swallows(r)
            => /\ \E i \in 1 .. Len(printed') :
                      printed'[i] = Substituted(NatStr(rrows[r][ridx[r]].id))
               /\ \E i \in 1 .. Len(printed') :
                      printed'[i] = Substituted(UuidStr(Uuid(rrows[r][ridx[r]].event_id))) ]_vars

\* What the code does: the line holds the outbox id of the row and the text
\* of the exception, and nothing else of the row.
C33_SwallowedFailurePrintsRowId ==
    [][ \A r \in Relays :
            Swallows(r)
            => /\ Len(printed') = 4
               /\ printed'[1] = Literal("Error processing outbox message ")
               /\ printed'[2] = Substituted(NatStr(rrows[r][ridx[r]].id))
               /\ printed'[3] = Literal(": ")
               /\ printed'[4] \in {Substituted(KafkaError), Substituted(PostgresError)} ]_vars

\* C33: the publish of the second outbox row was rejected and the line for
\* outbox id 2 was printed.
C33_Printed ==
    /\ printed = ErrorFormat(<< "2" >>, KafkaError)
    /\ 2 \in rejected

\* processed_count of worker r's invocation after the step: the value it
\* returns when the step ends the invocation, the local otherwise.
CountAfter(r) == IF rpc'[r] = "idle" THEN rresult'[r].value ELSE rcount'[r]

\* The step takes worker r past the DELETE of its row (the DELETE returned
\* or raised; the worker did not die).
PastDelete(r) ==
    /\ rpc[r] = "delete"
    /\ << rpc[r], ridx[r], rresult[r] >> # << rpc'[r], ridx'[r], rresult'[r] >>
    /\ rresult'[r].kind # "crashed"

\* C34: the count an invocation returns is the number of outbox rows it
\* removed: the count starts at 0, and a step past a DELETE adds one to it
\* exactly when the step removes a row from the outbox; a row whose DELETE
\* removed nothing or failed is not counted.
C34_CountIsRowsRemoved ==
    [][ \A r \in Workers :
            /\ (rpc[r] = "idle" /\ rpc'[r] = "publish") => rcount'[r] = 0
            /\ PastDelete(r)
               => /\ CountAfter(r) \in {rcount[r], rcount[r] + 1}
                  /\ CountAfter(r) = rcount[r] + 1
                     <=> Cardinality(outbox') = Cardinality(outbox) - 1
            /\ (rpc[r] = "publish" /\ rresult'[r].kind # "crashed" /\ rpc'[r] = "idle")
               => CountAfter(r) = rcount[r] ]_vars

\* C34 with one worker: under the faults of Spec (failed DELETE, crash, bus
\* outage) the count of the single Relay is the number of rows it removed.
C34_SingleRelayCountIsRowsRemoved ==
    [][ \A r \in Relays :
            /\ (rpc[r] = "idle" /\ rpc'[r] = "publish") => rcount'[r] = 0
            /\ PastDelete(r)
               => /\ CountAfter(r) \in {rcount[r], rcount[r] + 1}
                  /\ CountAfter(r) = rcount[r] + 1
                     <=> Cardinality(outbox') = Cardinality(outbox) - 1
                  /\ CountAfter(r) = rcount[r]
                     <=> (outbox' = outbox /\ faults' = faults + 1) ]_vars

\* C34: two workers held the same single row; each returned 1 and the
\* outbox, which had one row, is empty.
C34_BothCounted ==
    /\ Cardinality(events) = 1
    /\ outbox = {}
    /\ \A r \in Workers : rpc[r] = "idle" /\ rresult[r] = [kind |-> "ok", value |-> 1]

\* C35: with a single Relay that neither dies nor fails a DELETE, the bus
\* acknowledges every outbox row exactly once: no event is acknowledged
\* twice, whatever publishes were rejected before, a row that left the
\* outbox was acknowledged once, and an acknowledged row is in the outbox
\* only until the DELETE the worker is about to issue.
C35_AckedExactlyOnce ==
    /\ \A e \in events : Acks(e.event_id) <= 1
    /\ \A e \in events :
           (\A o \in outbox : o.event_id # e.event_id) => Acks(e.event_id) = 1
    /\ \A o \in outbox :
           Acks(o.event_id) = 1
           => \E r \in Relays : rpc[r] = "delete" /\ rrows[r][ridx[r]].id = o.id

\* C35 witness: the bus had an outage and recovered; two events are
\* committed, each was acknowledged once, both outbox rows are deleted, and
\* the last invocation, which published both, returned 2.
C35_Witness ==
    /\ faults >= 1
    /\ busUp
    /\ Cardinality(events) = 2
    /\ outbox = {}
    /\ Len(bus) = 2
    /\ \A e \in events : Acks(e.event_id) = 1
    /\ \E r \in Relays : rresult[r] = [kind |-> "ok", value |-> 2]

\* C36: no starvation across batches: under repeated process_outbox
\* invocations, an outbox row whose message the bus accepts is eventually
\* published and deleted, also when the older rows that fill the batch fail
\* on every attempt.
C36_NoStarvation ==
    \A id \in EventIds \ Refused :
        (\E o \in outbox : o.event_id = id)
        ~> (id \in AckedKeys /\ \A o \in outbox : o.event_id # id)

\* C36: the row of the refused event and a younger row are in the outbox,
\* and the invocation that just returned fetched the refused row and
\* published nothing.
C36_Starved ==
    /\ \E o1, o2 \in outbox : /\ o1.event_id \in Refused
                              /\ o2.event_id \notin Refused
                              /\ o1.created_at < o2.created_at
    /\ bus = << >>
    /\ \E r \in Relays : rpc[r] = "idle" /\ rresult[r] = [kind |-> "ok", value |-> 0]

\* C37 (the claim as stated): once append_events has returned v and no other
\* append_events call has begun since, load_events for the same
\* (tenant_id, aggregate_id) returns a list of exactly v records, whose
\* versions are 1, ..., v in this order.
C37_LoadYieldsHeadVersionRecords ==
    ( /\ last.result.kind = "ok"
      /\ \A w \in Writers : pc[w] = "idle" )
    => \A ty \in AggregateTypes :
           LET result == LoadEvents(last.args.aggregate_id, ty, last.args.tenant_id)
           IN  /\ result.kind = "ok"
               /\ Len(result.value) = last.result.value
               /\ \A i \in 1 .. Len(result.value) : result.value[i].version = i

\* C37 for calls that return a version of at least 1: load_events returns
\* exactly that many records, with versions 1, ..., v in this order.
C37_LoadYieldsPositiveHeadVersion ==
    ( /\ last.result.kind = "ok"
      /\ last.result.value >= 1
      /\ \A w \in Writers : pc[w] = "idle" )
    => \A ty \in AggregateTypes :
           LET result == LoadEvents(last.args.aggregate_id, ty, last.args.tenant_id)
           IN  /\ result.kind = "ok"
               /\ Len(result.value) = last.result.value
               /\ \A i \in 1 .. Len(result.value) : result.value[i].version = i

\* C37: append_events was called with no events and expected_version 0 for a
\* stream without rows, returned 0, and the load_events that followed raised
\* AggregateNotFoundError.
C37_LoadedNothingAfterVersionZero ==
    /\ last.result.kind = "ok"
    /\ last.result.value = 0
    /\ Len(last.args.new_events) = 0
    /\ \A w \in Writers : pc[w] = "idle"
    /\ loaded.tenant_id = last.args.tenant_id
    /\ loaded.aggregate_id = last.args.aggregate_id
    /\ loaded.result.kind = "AggregateNotFoundError"

\* C37: append_events committed events and returned 2, and the load_events
\* that followed returned two records, of versions 1 and 2.
C37_LoadedAfterAppend ==
    /\ last.result.kind = "ok"
    /\ last.result.value = 2
    /\ Len(last.args.new_events) >= 1
    /\ \A w \in Writers : pc[w] = "idle"
    /\ loaded.tenant_id = last.args.tenant_id
    /\ loaded.aggregate_id = last.args.aggregate_id
    /\ loaded.result.kind = "ok"
    /\ Len(loaded.result.value) = 2
    /\ loaded.result.value[1].version = 1
    /\ loaded.result.value[2].version = 2

\* The Silver file a transform_bronze_to_silver call returned the path of.
SilverFileWritten == CHOOSE f \in lake.silver : f.path = lakeCall.result.value

WroteSilver ==
    /\ lakeCall.op = "transform_bronze_to_silver"
    /\ lakeCall.result.kind = "ok"
    /\ lakeCall.result.value # EmptyStr

\* C39 (the claim as stated): the Silver file transform_bronze_to_silver
\* wrote holds exactly one record for every distinct event_id among the
\* events of the Bronze partition it read, and that record is of the first
\* event with this event_id in reading order.
C39_SilverHasOneRecordPerEventId ==
    WroteSilver =>
        LET all_events == lakeCall.all_events
            records == SilverFileWritten.content
            ids == { all_events[i].event_id : i \in 1 .. Len(all_events) }
        IN  /\ \E f \in lake.silver : f.path = lakeCall.result.value
            /\ Len(records) = Cardinality(ids)
            /\ \A id \in ids :
                   LET first == CHOOSE i \in 1 .. Len(all_events) :
                                    /\ all_events[i].event_id = id
                                    /\ \A k \in 1 .. i - 1 : all_events[k].event_id # id
                   IN  \E j \in 1 .. Len(records) :
                           /\ records[j].event_id = id
                           /\ records[j].created_at = all_events[first].created_at

\* C39, what the code does: the Silver file holds one record, of the first
\* event read.
C39_SilverHoldsFirstEventOnly ==
    WroteSilver =>
        /\ \E f \in lake.silver : f.path = lakeCall.result.value
        /\ Len(SilverFileWritten.content) = 1
        /\ SilverFileWritten.content[1].event_id = lakeCall.all_events[1].event_id
        /\ SilverFileWritten.content[1].created_at = lakeCall.all_events[1].created_at

\* C39: transform_bronze_to_silver read a partition of four events with two
\* distinct event_ids, one of them redelivered, and the Silver file it
\* wrote holds a single record.
C39_SecondEventDropped ==
    /\ WroteSilver
    /\ Len(lakeCall.all_events) = 4
    /\ Cardinality({ lakeCall.all_events[i].event_id : i \in 1 .. 4 }) = 2
    /\ Len(SilverFileWritten.content) = 1

UploadedToBronze ==
    /\ lakeCall.op = "upload_event_to_bronze"
    /\ lakeCall.result.kind = "ok"

\* C40 (the claim as stated): after upload_event_to_bronze for event type T
\* and a partition date, a file below events/T/year=Y/month=MM/day=DD/ of
\* the bronze filesystem holds the uploaded events, and a
\* transform_bronze_to_silver(T, Y, MM, DD) that follows and returns has
\* read every one of them.
C40_UploadedEventsReadByTransform ==
    /\ [](UploadedToBronze =>
            \E f \in lake.bronze :
                /\ IsUnder(f.path, BronzePath(lakeCall.event_type, lakeCall.year,
                                              lakeCall.month, lakeCall.day))
                /\ Range(ConvertEventsToParquet(lakeCall.events)) \subseteq Range(f.content))
    /\ [][ ( /\ UploadedToBronze
             /\ lakeCall'.op = "transform_bronze_to_silver"
             /\ lakeCall'.result.kind = "ok"
             /\ lakeCall'.event_type = lakeCall.event_type
             /\ lakeCall'.year = lakeCall.year
             /\ lakeCall'.month = lakeCall.month
             /\ lakeCall'.day = lakeCall.day )
           => Range(ConvertEventsToParquet(lakeCall.events))
                  \subseteq Range(lakeCall'.all_events) ]_vars

\* C40, what the code does: the file upload_event_to_bronze wrote is at
\* year=Y/month=MM/day=DD/<timestamp>.parquet, outside the directory events.
C40_UploadedOutsideEvents ==
    UploadedToBronze =>
        /\ \E f \in lake.bronze :
               /\ f.path = lakeCall.result.value
               /\ f.content = ConvertEventsToParquet(lakeCall.events)
        /\ Len(lakeCall.result.value) = 4
        /\ lakeCall.result.value[1] = YearPart(lakeCall.year)
        /\ ~IsUnder(lakeCall.result.value, << << "events" >> >>)

\* C40: TransactionCreated events were uploaded for a date, and the
\* transform_bronze_to_silver call for this event type and date that
\* followed returned the empty string, having read no event.
C40_UploadNotRead ==
    /\ lakeCall.op = "transform_bronze_to_silver"
    /\ lakeCall.event_type = "TransactionCreated"
    /\ lakeCall.result = Returned(EmptyStr)
    /\ lakeCall.all_events = << >>
    /\ \E f \in lake.bronze :
           /\ f.path[1] = YearPart(lakeCall.year)
           /\ f.path[2] = MonthPart(lakeCall.month)
           /\ f.path[3] = DayPart(lakeCall.day.int)
           /\ \E i \in 1 .. Len(f.content) : f.content[i].event_type = "TransactionCreated"

\* C38: the aggregate_type argument takes no part in the stream: the version
\* check of append_events passes exactly when expected_version is the head
\* version of the rows of (tenant_id, aggregate_id) of whatever
\* aggregate_type; load_events returns every row of (tenant_id,
\* aggregate_id), the same list for either aggregate_type argument; and the
\* versions of the rows of (tenant_id, aggregate_id), taken over all their
\* aggregate_type values, are 1, ..., N.
C38_StreamIgnoresAggregateType ==
    /\ [][ \A w \in Writers :
             (pc[w] = "read_version" /\ pc'[w] # "read_version")
             => ( pc'[w] # "idle" <=>
                    args[w].expected_version =
                        HeadVersion(events, args[w].tenant_id, args[w].aggregate_id) ) ]_vars
    /\ [][ (loaded' # loaded /\ loaded'.result.kind = "ok")
           => /\ Len(loaded'.result.value) =
                     Cardinality(Stream(loaded'.tenant_id, loaded'.aggregate_id))
              /\ \A r \in Stream(loaded'.tenant_id, loaded'.aggregate_id) :
                     \E i \in 1 .. Len(loaded'.result.value) :
                         /\ loaded'.result.value[i].event_id = r.event_id
                         /\ loaded'.result.value[i].version = r.version
              /\ \A ty \in TypedAggregateTypes :
                     LoadEvents(loaded'.aggregate_id, ty, loaded'.tenant_id).value
                         = loaded'.result.value ]_vars
    /\ [](\A t \in Tenants, g \in Aggregates :
              { r.version : r \in Stream(t, g) } = 1 .. Cardinality(Stream(t, g)))

\* C38 witness: the rows of one (tenant_id, aggregate_id) were appended under
\* two aggregate_type values, with versions 1 and 2, and a load_events call
\* with aggregate_type BUDGET returned both.
C38_Witness ==
    /\ loaded.result.kind = "ok"
    /\ loaded.aggregate_type = "BUDGET"
    /\ Len(loaded.result.value) = 2
    /\ \E r1, r2 \in Stream(loaded.tenant_id, loaded.aggregate_id) :
           /\ r1.aggregate_type = "Account" /\ r1.version = 1
           /\ r2.aggregate_type = "BUDGET" /\ r2.version = 2
           /\ loaded.result.value[1].event_id = r1.event_id
           /\ loaded.result.value[2].event_id = r2.event_id

====
